---------------------------- MODULE Spec2Model ----------------------------
(***************************************************************************)
(* A state-machine model of tuic-quinn (src/tuic-quinn/src/lib.rs): the    *)
(* adapter that maps the TUIC commands onto the datagrams, unidirectional  *)
(* streams and bidirectional streams of one QUIC connection.               *)
(*                                                                         *)
(* One client-role Connection and one server-role Connection are the two   *)
(* ends of one transport connection.  The wire codec and the reassembly    *)
(* bookkeeping live in the `tuic` model crate, which lib.rs only calls;    *)
(* they are modelled here from the specification.                          *)
(***************************************************************************)
EXTENDS Integers, Sequences, FiniteSets, TLC

\* ------------------------------------------------------------------ bounds
\* Longest payload handed to packet_native / packet_quic.
MaxPayload == 3
\* A transport whose datagrams are too small for the doubled buffer of
\* packet_native, and one large enough for it.
SmallDatagram == 11
BigDatagram == 24
\* u16::MAX (lib.rs:71), scaled down so that payloads of at most MaxPayload
\* bytes are split into several fragments.
QuicMaxPktSize == 11
\* The age, in ticks, up to which a reassembly buffer is followed.
MaxAge == 1

Sides == {"client", "server"}
Peer(s) == IF s = "client" THEN "server" ELSE "client"
\* The association ids in use.
Assocs == {1, 2}
\* Address::None and one socket address.
NoneAddr == 0
Addrs == {1}
\* Payloads: n distinct non-zero bytes, for the shortest and the longest n.
Payloads == {[i \in 1..n |-> 10 + i] : n \in {1, MaxPayload}}
\* max_datagram_size() of the transport: None (datagrams unsupported) or a size.
NoDatagram == -1
DatagramSizes == {NoDatagram, SmallDatagram, BigDatagram}

Min(a, b) == IF a < b THEN a ELSE b
CeilDiv(a, b) == (a + b - 1) \div b
Zeros(n) == [i \in 1..n |-> 0]
Slice(s, from, to) == SubSeq(s, from + 1, to)

\* ------------------------------------------------------------- wire codec
\* The header's leading bytes: protocol version, then the command type.
VERSION == 5
TYPE_AUTHENTICATE == 0
TYPE_CONNECT == 1
TYPE_PACKET == 2
TYPE_DISSOCIATE == 3
TYPE_HEARTBEAT == 4
ADDR_NONE == 255
ADDR_SOCKET == 1

Authenticate(token) == [cmd |-> "authenticate", token |-> token]
ConnectHeader(addr) == [cmd |-> "connect", addr |-> addr]
PacketHeader(assoc_id, pkt_id, frag_total, frag_id, size, addr) ==
    [cmd |-> "packet", assoc_id |-> assoc_id, pkt_id |-> pkt_id,
     frag_total |-> frag_total, frag_id |-> frag_id, size |-> size, addr |-> addr]
Dissociate(assoc_id) == [cmd |-> "dissociate", assoc_id |-> assoc_id]
Heartbeat == [cmd |-> "heartbeat"]

MarshalAddr(addr) == IF addr = NoneAddr THEN <<ADDR_NONE>> ELSE <<ADDR_SOCKET, addr>>

\* Header::write / Header::async_marshal: the header's bytes.
Marshal(h) ==
    CASE h.cmd = "authenticate" -> <<VERSION, TYPE_AUTHENTICATE, h.token>>
      [] h.cmd = "connect" -> <<VERSION, TYPE_CONNECT>> \o MarshalAddr(h.addr)
      [] h.cmd = "packet" ->
            <<VERSION, TYPE_PACKET, h.assoc_id, h.pkt_id, h.frag_total, h.frag_id, h.size>>
            \o MarshalAddr(h.addr)
      [] h.cmd = "dissociate" -> <<VERSION, TYPE_DISSOCIATE, h.assoc_id>>
      [] h.cmd = "heartbeat" -> <<VERSION, TYPE_HEARTBEAT>>

\* Header::len
HeaderLen(h) == Len(Marshal(h))

\* The address that starts at byte `at` (1-based) of b: <<status, addr, bytes used>>.
UnmarshalAddr(b, at) ==
    IF Len(b) < at THEN <<"eof", NoneAddr, 0>>
    ELSE IF b[at] = ADDR_NONE THEN <<"ok", NoneAddr, 1>>
    ELSE IF b[at] # ADDR_SOCKET THEN <<"err", NoneAddr, 1>>
    ELSE IF Len(b) < at + 1 THEN <<"eof", NoneAddr, 1>>
    ELSE <<"ok", b[at + 1], 2>>

Decoded(h, used) == [st |-> "ok", hdr |-> h, used |-> used]
Undecoded(st, used) == [st |-> st, hdr |-> Heartbeat, used |-> used]

\* Header::unmarshal / Header::async_unmarshal on the bytes b that are
\* available: "ok" with the header and the bytes it took, "err" for bytes that
\* are no header, "eof" when b ends inside the header.
Unmarshal(b) ==
    IF Len(b) < 1 THEN Undecoded("eof", 0)
    ELSE IF b[1] # VERSION THEN Undecoded("err", 1)
    ELSE IF Len(b) < 2 THEN Undecoded("eof", 1)
    ELSE IF b[2] = TYPE_AUTHENTICATE THEN
        IF Len(b) < 3 THEN Undecoded("eof", 2) ELSE Decoded(Authenticate(b[3]), 3)
    ELSE IF b[2] = TYPE_CONNECT THEN
        LET a == UnmarshalAddr(b, 3)
        IN  IF a[1] = "ok" THEN Decoded(ConnectHeader(a[2]), 2 + a[3])
            ELSE Undecoded(a[1], 2 + a[3])
    ELSE IF b[2] = TYPE_PACKET THEN
        IF Len(b) < 7 THEN Undecoded("eof", Len(b))
        ELSE LET a == UnmarshalAddr(b, 8)
             IN  IF a[1] = "ok"
                 THEN Decoded(PacketHeader(b[3], b[4], b[5], b[6], b[7], a[2]), 7 + a[3])
                 ELSE Undecoded(a[1], 7 + a[3])
    ELSE IF b[2] = TYPE_DISSOCIATE THEN
        IF Len(b) < 3 THEN Undecoded("eof", 2) ELSE Decoded(Dissociate(b[3]), 3)
    ELSE IF b[2] = TYPE_HEARTBEAT THEN Decoded(Heartbeat, 2)
    ELSE Undecoded("err", 2)

\* ------------------------------------------------------------ fragmenter
\* Packet<Tx>::into_fragments: the payload cut into units of at most
\* max_pkt_size bytes, header included.  The first header carries the
\* address, the others Address::None.
FirstFragSize(addr, max_pkt_size) ==
    max_pkt_size - HeaderLen(PacketHeader(0, 0, 0, 0, 0, addr))
NextFragSize(max_pkt_size) ==
    max_pkt_size - HeaderLen(PacketHeader(0, 0, 0, 0, 0, NoneAddr))
FragTotal(addr, max_pkt_size, payload) ==
    IF Len(payload) <= FirstFragSize(addr, max_pkt_size) THEN 1
    ELSE 1 + CeilDiv(Len(payload) - FirstFragSize(addr, max_pkt_size),
                     NextFragSize(max_pkt_size))
FragStart(addr, max_pkt_size, payload, i) ==
    IF i = 0 THEN 0
    ELSE Min(Len(payload),
             FirstFragSize(addr, max_pkt_size) + (i - 1) * NextFragSize(max_pkt_size))
Fragments(assoc_id, pkt_id, addr, max_pkt_size, payload) ==
    LET total == FragTotal(addr, max_pkt_size, payload)
    IN  [k \in 1..total |->
            LET from == FragStart(addr, max_pkt_size, payload, k - 1)
                to == FragStart(addr, max_pkt_size, payload, k)
                frag == Slice(payload, from, IF k = total THEN Len(payload) ELSE to)
            IN  [header |-> PacketHeader(assoc_id, pkt_id, total, k - 1, Len(frag),
                                         IF k = 1 THEN addr ELSE NoneAddr),
                 frag |-> frag]]


\* --------------------------------------------------------------- state
VARIABLES
    max_datagram_size,  \* conn.max_datagram_size() of the shared transport
    sessions,           \* model.udp_sessions of each side's ConnectionModel
    chans,              \* every datagram and stream of the transport connection
    tasks,              \* Packet objects returned in Task::Packet, not yet accepted
    jobs,               \* packet_quic calls suspended at an await
    ret,                \* the call that returned last, with what it returned
    sent,               \* history: the packets handed to packet_native / packet_quic
    dissociated,        \* history: the associations a dissociate has named
    budget,             \* send calls (and crafted channels) still allowed
    alive,              \* the transport connection has not been lost
    connects,           \* the Connect sessions that exist and are not dropped
    connect_count,      \* model.task_connect_count() of each side
    assoc_use           \* history: what the client last did on each association

vars == <<max_datagram_size, sessions, chans, tasks, jobs, ret, sent, dissociated,
          budget, alive, connects, connect_count, assoc_use>>

\* Send calls in one behaviour.
MaxSends == 2
\* packet_quic calls suspended at the same time.
MaxJobs == 1

\* ------------------------------------------------- the model crate's state
ClosedSession == [open |-> FALSE, next_pkt_id |-> 0, pkt_buf |-> {}]
NewSession == [open |-> TRUE, next_pkt_id |-> 0, pkt_buf |-> {}]

\* UdpSessions::send_packet: the association is opened if it is not, and the
\* packet takes the session's next packet id.
SendPacketId(ss, assoc_id) ==
    IF ss[assoc_id].open THEN ss[assoc_id].next_pkt_id ELSE 0
SendPacket(ss, assoc_id) ==
    [ss EXCEPT ![assoc_id] =
        IF ss[assoc_id].open
        THEN [@ EXCEPT !.next_pkt_id = @ + 1]
        ELSE [NewSession EXCEPT !.next_pkt_id = 1]]

\* UdpSessions::recv_packet: Some only for an association this side has opened.
RecvPacketIsSome(ss, assoc_id) == ss[assoc_id].open

\* UdpSessions::recv_packet_unrestricted: the association is opened on demand.
RecvPacketUnrestricted(ss, assoc_id) ==
    IF ss[assoc_id].open THEN ss ELSE [ss EXCEPT ![assoc_id] = NewSession]

\* UdpSessions::send_dissociate / recv_dissociate: the association is removed,
\* its reassembly buffers with it.
RemoveSession(ss, assoc_id) == [ss EXCEPT ![assoc_id] = ClosedSession]

\* UdpSessions::collect_garbage: every buffer as old as the timeout is dropped.
\* A buffer's age is the time since its creation (c_time.elapsed()).
CollectGarbageModel(ss, timeout) ==
    [a \in Assocs |->
        [ss[a] EXCEPT !.pkt_buf = {b \in @ : b.age < timeout}]]

\* A tick of the clock: every buffer is one tick older.
Older(ss) ==
    [a \in Assocs |->
        [ss[a] EXCEPT !.pkt_buf = {[b EXCEPT !.age = Min(@ + 1, MaxAge)] : b \in @}]]

\* task_associate_count
TaskAssociateCount(ss) == Cardinality({a \in Assocs : ss[a].open})

RECURSIVE Concat(_, _, _)
\* The fragments 0..total-1 of a complete buffer, joined in index order.
Concat(frags, i, total) ==
    IF i >= total THEN <<>>
    ELSE (CHOOSE f \in frags : f.id = i).data \o Concat(frags, i + 1, total)

\* Packet<Rx>::assemble, then Assemblable::assemble: the fragment is stored in
\* the buffer of its association and packet id; the packet is returned, and
\* its buffer released, once every fragment is there.  Assembling opens no
\* association: where the association has been removed since the Packet was
\* made, its reassembly state is gone, the fragment is assembled on its own
\* and nothing of it is kept.
\* <<sessions after, "none" | "some" | "err", payload, addr>>
Assemble(ss, h, data) ==
    LET old == {b \in ss[h.assoc_id].pkt_buf : b.pkt_id = h.pkt_id}
        buf == IF old = {}
               THEN [pkt_id |-> h.pkt_id, frag_total |-> h.frag_total, frags |-> {},
                     addr |-> NoneAddr, age |-> 0]
               ELSE CHOOSE b \in old : TRUE
        with == IF ss[h.assoc_id].open
                THEN [ss EXCEPT ![h.assoc_id].pkt_buf = (@ \ old) \cup {buf}]
                ELSE ss
    IN  IF \/ Len(data) # h.size
           \/ h.frag_id >= buf.frag_total
           \/ (h.frag_id = 0) # (h.addr # NoneAddr)
           \/ \E f \in buf.frags : f.id = h.frag_id
        THEN <<with, "err", <<>>, NoneAddr>>
        ELSE LET frags == buf.frags \cup {[id |-> h.frag_id, data |-> data]}
                 addr == IF h.frag_id = 0 THEN h.addr ELSE buf.addr
                 full == [buf EXCEPT !.frags = frags, !.addr = addr]
             IN  IF Cardinality(frags) = buf.frag_total
                 THEN <<[ss EXCEPT ![h.assoc_id].pkt_buf = @ \ old], "some",
                        Concat(frags, 0, buf.frag_total), addr>>
                 ELSE <<IF ss[h.assoc_id].open
                        THEN [ss EXCEPT ![h.assoc_id].pkt_buf = (@ \ old) \cup {full}]
                        ELSE ss,
                        "none", <<>>, NoneAddr>>


\* ------------------------------------------------------- calls and results
\* What a call returned: Ok or Err (or a panic), the Task or Error variant,
\* and what the variant carries.
NoRes == [tag |-> "ok", kind |-> "", name |-> "", chan |-> 0, bytes |-> <<>>,
          a |-> 0, b |-> 0, addr |-> NoneAddr]
Ok(kind) == [NoRes EXCEPT !.kind = kind]
Err(kind) == [NoRes EXCEPT !.tag = "err", !.kind = kind]
Panic == [NoRes EXCEPT !.tag = "panic"]
Returned(op, side, chan, res) == [op |-> op, side |-> side, chan |-> chan, res |-> res]
\* No call returned in the last step.
NoReturn == Returned("none", "client", 0, NoRes)

\* A channel of the transport: a datagram ("dg"), a unidirectional stream
\* ("uni") or a bidirectional stream ("bi") on its way to side `to`.  data is
\* what the sender has written, fin whether it has closed, pos what the
\* receiver has read, st who holds the receiving end: the transport ("wire"),
\* a Packet ("task"), the caller, inside an error or a session ("caller"), or
\* nobody ("dropped").  by tells the channels the peer's Connection made
\* ("conn") from those of a peer writing to the transport itself ("raw"), and
\* call is the sending call that opened the channel, with its argument.  A
\* bidirectional stream has a second direction, from `to` back to the opener:
\* back is what has been written to it, back_fin whether it is closed,
\* back_pos what the opener has read, back_st who holds its receiving end: the
\* opener ("caller"), or nobody ("dropped"); "na" where there is no second
\* direction.
NoCall == [op |-> "", arg |-> 0]
Chan(kind, to, data, fin) ==
    [kind |-> kind, to |-> to, data |-> data, fin |-> fin, pos |-> 0, st |-> "wire",
     by |-> "conn", call |-> NoCall, back |-> <<>>, back_fin |-> FALSE, back_pos |-> 0,
     back_st |-> IF kind = "bi" THEN "caller" ELSE "na"]
\* The channel a call with this argument opened.
OpenedBy(ch, op, arg) == [ch EXCEPT !.call = [op |-> op, arg |-> arg]]

\* --------------------------------------------------------- packet_native
\* The datagram built for one fragment, lib.rs:56-58: a Vec of header.len() +
\* frag.len() zero bytes, to which Header::write and put_slice (BufMut for
\* Vec<u8>) append the header and the fragment.
NativeDatagram(f) ==
    Zeros(HeaderLen(f.header) + Len(f.frag)) \o Marshal(f.header) \o f.frag

\* conn.send_datagram: TooLarge for a datagram above max_datagram_size.
SendDatagramOk(dg, max) == max # NoDatagram /\ Len(dg) <= max

RECURSIVE NativeSentCount(_, _, _)
\* The fragment loop of lib.rs:55-60 stops at the first send_datagram error:
\* the number of datagrams sent, from fragment k on.
NativeSentCount(frags, k, max) ==
    IF k > Len(frags) \/ ~SendDatagramOk(NativeDatagram(frags[k]), max) THEN 0
    ELSE 1 + NativeSentCount(frags, k + 1, max)

\* Faulty variant: send_packet is called before the transport is asked for its
\* maximum datagram size.
NativeSessions_Eager(ss, assoc_id, max) == SendPacket(ss, assoc_id)

\* lib.rs:49-53: send_packet is called only once the transport has reported a
\* maximum datagram size.
NativeSessions(ss, assoc_id, max) ==
    IF max = NoDatagram THEN ss ELSE SendPacket(ss, assoc_id)

SentPacket(s, via, assoc_id, pkt_id, addr, payload, total) ==
    [from |-> s, via |-> via, assoc_id |-> assoc_id, pkt_id |-> pkt_id, addr |-> addr,
     payload |-> payload, total |-> total, chans |-> <<>>, acc |-> {},
     done |-> FALSE, err |-> FALSE, dirty |-> FALSE, swept |-> FALSE, expired |-> FALSE]

\* The history of the client's associations: a packet send call has reached
\* send_packet (lib.rs:53, 71).
UsedBy(s, assoc_id) ==
    IF s = "client" THEN [assoc_use EXCEPT ![assoc_id] = "sent"] ELSE assoc_use

PacketNative(s, payload, addr, assoc_id) ==
    /\ budget > 0
    /\ budget' = budget - 1
    /\ sessions' = [sessions EXCEPT ![s] = NativeSessions(@, assoc_id, max_datagram_size)]
    /\ assoc_use' = IF max_datagram_size = NoDatagram THEN assoc_use
                     ELSE UsedBy(s, assoc_id)
    /\ UNCHANGED <<max_datagram_size, alive, connects, connect_count, tasks, jobs, dissociated>>
    /\ IF max_datagram_size = NoDatagram
       THEN /\ ret' = Returned("packet_native", s, 0,
                               [Err("SendDatagram") EXCEPT !.name = "Disabled"])
            /\ UNCHANGED <<chans, sent>>
       ELSE LET pkt_id == SendPacketId(sessions[s], assoc_id)
                frags == Fragments(assoc_id, pkt_id, addr, max_datagram_size, payload)
                n == IF alive THEN NativeSentCount(frags, 1, max_datagram_size) ELSE 0
            IN  /\ chans' = chans \o [k \in 1..n |->
                                OpenedBy(Chan("dg", Peer(s), NativeDatagram(frags[k]), TRUE),
                                         "packet_native", assoc_id)]
                /\ sent' = Append(sent,
                        [SentPacket(s, "native", assoc_id, pkt_id, addr, payload, Len(frags))
                            EXCEPT !.chans = [k \in 1..n |-> Len(chans) + k],
                                   !.done = TRUE, !.err = n < Len(frags)])
                /\ ret' = Returned("packet_native", s, 0,
                                   IF n = Len(frags) THEN Ok("unit")
                                   ELSE [Err("SendDatagram") EXCEPT !.name =
                                            IF alive THEN "TooLarge" ELSE "ConnectionLost"])

\* ----------------------------------------------------------- packet_quic
\* A call suspended at an await: the operation, the side it was made on, its
\* place (pc), and what it holds: the packet (its index in sent), the
\* fragments and the index of the current one, the stream it has open, the
\* header of a connect (whose pkt is the number of the call).
Job(op, s, pkt, frags, hdr) ==
    [op |-> op, side |-> s, pkt |-> pkt, frags |-> frags, k |-> 1, pc |-> "open",
     chan |-> 0, hdr |-> hdr]

\* lib.rs:71: send_packet with u16::MAX as the maximum packet size, before the
\* first await.  The call is then suspended at open_uni.
PacketQuic(s, payload, addr, assoc_id) ==
    /\ budget > 0
    /\ budget' = budget - 1
    /\ LET pkt_id == SendPacketId(sessions[s], assoc_id)
           frags == Fragments(assoc_id, pkt_id, addr, QuicMaxPktSize, payload)
       IN  /\ sessions' = [sessions EXCEPT ![s] = SendPacket(@, assoc_id)]
           /\ sent' = Append(sent, SentPacket(s, "quic", assoc_id, pkt_id, addr, payload,
                                              Len(frags)))
           /\ jobs' = jobs \cup {Job("packet_quic", s, Len(sent) + 1, frags, Heartbeat)}
    /\ assoc_use' = UsedBy(s, assoc_id)
    /\ ret' = NoReturn
    /\ UNCHANGED <<max_datagram_size, alive, connects, connect_count, chans, tasks, dissociated>>

\* Faulty variant: the error is reported and the loop goes on with the next
\* fragment.
QuicFails_GoesOn(j, kind) ==
    /\ jobs' = (jobs \ {j}) \cup
                (IF j.k < Len(j.frags)
                 THEN {[j EXCEPT !.pc = "open", !.k = @ + 1, !.chan = 0]} ELSE {})
    /\ sent' = [sent EXCEPT ![j.pkt].done = TRUE, ![j.pkt].err = TRUE]
    /\ ret' = Returned("packet_quic", j.side, j.chan, Err(kind))

\* The ? of lib.rs:74-77: the call returns the error; the streams it has
\* written stay as they are, and no later fragment is sent.
QuicFails(j, kind) ==
    /\ jobs' = jobs \ {j}
    /\ sent' = [sent EXCEPT ![j.pkt].done = TRUE, ![j.pkt].err = TRUE]
    /\ ret' = Returned("packet_quic", j.side, j.chan, Err(kind))

\* lib.rs:74: open_uni returns a fresh unidirectional stream, or the
\* ConnectionError of a lost connection.
QuicOpen(j) ==
    /\ j.op = "packet_quic" /\ j.pc = "open"
    /\ IF alive
       THEN /\ chans' = Append(chans, OpenedBy(Chan("uni", Peer(j.side), <<>>, FALSE),
                                               "packet_quic", j.frags[j.k].header.assoc_id))
            /\ jobs' = (jobs \ {j}) \cup {[j EXCEPT !.pc = "header", !.chan = Len(chans) + 1]}
            /\ sent' = [sent EXCEPT ![j.pkt].chans = Append(@, Len(chans) + 1)]
            /\ ret' = NoReturn
       ELSE /\ QuicFails(j, "Connection")
            /\ UNCHANGED chans
    /\ UNCHANGED <<max_datagram_size, alive, connects, connect_count, assoc_use, sessions, tasks, dissociated, budget>>

\* lib.rs:75: header.async_marshal(&mut send)
QuicHeader(j) ==
    /\ j.op = "packet_quic" /\ j.pc = "header"
    /\ IF alive
       THEN /\ chans' = [chans EXCEPT ![j.chan].data = @ \o Marshal(j.frags[j.k].header)]
            /\ jobs' = (jobs \ {j}) \cup {[j EXCEPT !.pc = "body"]}
            /\ ret' = NoReturn
            /\ UNCHANGED sent
       ELSE /\ QuicFails(j, "Io")
            /\ UNCHANGED chans
    /\ UNCHANGED <<max_datagram_size, alive, connects, connect_count, assoc_use, sessions, tasks, dissociated, budget>>

\* lib.rs:76: write_all(&mut send, frag)
QuicBody(j) ==
    /\ j.op = "packet_quic" /\ j.pc = "body"
    /\ IF alive
       THEN /\ chans' = [chans EXCEPT ![j.chan].data = @ \o j.frags[j.k].frag]
            /\ jobs' = (jobs \ {j}) \cup {[j EXCEPT !.pc = "close"]}
            /\ ret' = NoReturn
            /\ UNCHANGED sent
       ELSE /\ QuicFails(j, "Io")
            /\ UNCHANGED chans
    /\ UNCHANGED <<max_datagram_size, alive, connects, connect_count, assoc_use, sessions, tasks, dissociated, budget>>

\* Faulty variant: only the last fragment's stream is closed.
QuicClose_LastOnly(j) ==
    /\ j.op = "packet_quic" /\ j.pc = "close"
    /\ IF ~alive
       THEN /\ QuicFails(j, "Io")
            /\ UNCHANGED chans
       ELSE IF j.k < Len(j.frags)
            THEN /\ jobs' = (jobs \ {j}) \cup
                             {[j EXCEPT !.pc = "open", !.k = @ + 1, !.chan = 0]}
                 /\ ret' = NoReturn
                 /\ UNCHANGED <<sent, chans>>
            ELSE /\ chans' = [chans EXCEPT ![j.chan].fin = TRUE]
                 /\ jobs' = jobs \ {j}
                 /\ sent' = [sent EXCEPT ![j.pkt].done = TRUE]
                 /\ ret' = Returned("packet_quic", j.side, 0, Ok("unit"))
    /\ UNCHANGED <<max_datagram_size, alive, connects, connect_count, assoc_use, sessions, tasks, dissociated, budget>>

\* lib.rs:77-80: send.close(), then the next fragment, or Ok(()) after the last.
QuicClose(j) ==
    /\ j.op = "packet_quic" /\ j.pc = "close"
    /\ IF ~alive
       THEN /\ QuicFails(j, "Io")
            /\ UNCHANGED chans
       ELSE /\ chans' = [chans EXCEPT ![j.chan].fin = TRUE]
            /\ IF j.k < Len(j.frags)
               THEN /\ jobs' = (jobs \ {j}) \cup
                                {[j EXCEPT !.pc = "open", !.k = @ + 1, !.chan = 0]}
                    /\ ret' = NoReturn
                    /\ UNCHANGED sent
               ELSE /\ jobs' = jobs \ {j}
                    /\ sent' = [sent EXCEPT ![j.pkt].done = TRUE]
                    /\ ret' = Returned("packet_quic", j.side, 0, Ok("unit"))
    /\ UNCHANGED <<max_datagram_size, alive, connects, connect_count, assoc_use, sessions, tasks, dissociated, budget>>


\* ------------------------------------------------- role-exclusive senders
\* Faulty variant: heartbeat moved to the impl block both roles share.
Senders_SharedHeartbeat(s) ==
    IF s = "client"
    THEN {"packet_native", "packet_quic", "authenticate", "connect", "dissociate",
          "heartbeat"}
    ELSE {"packet_native", "packet_quic", "heartbeat"}

\* The sending operations each role's Connection has: packet_native and
\* packet_quic in impl<Side> Connection<Side>, the other four in
\* impl Connection<side::Client>; impl Connection<side::Server> adds none.
Senders(s) ==
    IF s = "client"
    THEN {"packet_native", "packet_quic", "authenticate", "connect", "dissociate",
          "heartbeat"}
    ELSE {"packet_native", "packet_quic"}

Tokens == {7, 8}
\* The addresses connect is called with.
Targets == {1, 2}

\* lib.rs:106: send_authenticate, before the first await.  The call is then
\* suspended at open_uni.
AuthenticateCall(s, token) ==
    /\ "authenticate" \in Senders(s)
    /\ budget > 0
    /\ budget' = budget - 1
    /\ jobs' = jobs \cup {Job("authenticate", s, budget, <<>>, Authenticate(token))}
    /\ ret' = NoReturn
    /\ UNCHANGED <<max_datagram_size, alive, connects, connect_count, assoc_use, sessions, chans, tasks, sent, dissociated>>

\* The ? of lib.rs:107-109 and 122-124: the call returns the error; the stream
\* it has opened stays as it is.
CommandFails(j, kind) ==
    /\ jobs' = jobs \ {j}
    /\ ret' = Returned(j.op, j.side, j.chan, Err(kind))
    /\ UNCHANGED chans

\* lib.rs:107: open_uni returns a fresh unidirectional stream, or the
\* ConnectionError of a lost connection.
AuthenticateOpen(j) ==
    /\ j.op = "authenticate" /\ j.pc = "open"
    /\ IF alive
       THEN /\ chans' = Append(chans, OpenedBy(Chan("uni", Peer(j.side), <<>>, FALSE),
                                               "authenticate", j.hdr.token))
            /\ jobs' = (jobs \ {j}) \cup {[j EXCEPT !.pc = "header", !.chan = Len(chans) + 1]}
            /\ ret' = NoReturn
       ELSE CommandFails(j, "Connection")
    /\ UNCHANGED <<max_datagram_size, alive, connects, connect_count, assoc_use, sessions, tasks, sent, dissociated, budget>>

\* Faulty variant: the token is written after the header, a second time.
AuthenticateHeader_TokenTwice(j) ==
    /\ j.op = "authenticate" /\ j.pc = "header"
    /\ IF alive
       THEN /\ chans' = [chans EXCEPT ![j.chan].data = @ \o Marshal(j.hdr) \o <<j.hdr.token>>]
            /\ jobs' = (jobs \ {j}) \cup {[j EXCEPT !.pc = "close"]}
            /\ ret' = NoReturn
       ELSE CommandFails(j, "Io")
    /\ UNCHANGED <<max_datagram_size, alive, connects, connect_count, assoc_use, sessions, tasks, sent, dissociated, budget>>

\* lib.rs:108: model.header().async_marshal(&mut send)
AuthenticateHeader(j) ==
    /\ j.op = "authenticate" /\ j.pc = "header"
    /\ IF alive
       THEN /\ chans' = [chans EXCEPT ![j.chan].data = @ \o Marshal(j.hdr)]
            /\ jobs' = (jobs \ {j}) \cup {[j EXCEPT !.pc = "close"]}
            /\ ret' = NoReturn
       ELSE CommandFails(j, "Io")
    /\ UNCHANGED <<max_datagram_size, alive, connects, connect_count, assoc_use, sessions, tasks, sent, dissociated, budget>>

\* lib.rs:109-110: send.close(), then Ok(()).
AuthenticateClose(j) ==
    /\ j.op = "authenticate" /\ j.pc = "close"
    /\ IF alive
       THEN /\ chans' = [chans EXCEPT ![j.chan].fin = TRUE]
            /\ jobs' = jobs \ {j}
            /\ ret' = Returned("authenticate", j.side, j.chan, Ok("unit"))
       ELSE CommandFails(j, "Io")
    /\ UNCHANGED <<max_datagram_size, alive, connects, connect_count, assoc_use, sessions, tasks, sent, dissociated, budget>>

\* --- connect
\* A Connect session: the side that holds it, its bidirectional stream, and
\* its model, which keeps the Connect header.
ConnectSession(s, chan, hdr) == [side |-> s, chan |-> chan, model |-> hdr]

\* Faulty variant: the Side::Server arm does not read the model's address.
ConnectAddr_ClientOnly(c) == IF c.side = "client" THEN c.model.addr ELSE NoneAddr

\* Connect::addr, lib.rs:315-323: the address of the model's header.
ConnectAddr(c) == c.model.addr

\* ConnectionModel::send_connect / recv_connect register a task; dropping the
\* Connect model releases it.
Registered(cc, s) == [cc EXCEPT ![s] = @ + 1]
Released(cc, s) == [cc EXCEPT ![s] = @ - 1]

\* lib.rs:114: send_connect, before the first await.  The call is then
\* suspended at open_bi.
ConnectCall(s, addr) ==
    /\ "connect" \in Senders(s)
    /\ budget > 0
    /\ budget' = budget - 1
    /\ connect_count' = Registered(connect_count, s)
    /\ jobs' = jobs \cup {Job("connect", s, budget, <<>>, ConnectHeader(addr))}
    /\ ret' = NoReturn
    /\ UNCHANGED <<max_datagram_size, alive, connects, assoc_use, sessions, chans, tasks, sent, dissociated>>

\* Side s drops both halves it holds of bidirectional stream ch: nobody holds
\* the receiving end of the direction towards s any more, and the drop of the
\* send half closes the direction from s, on a connection that is not lost.
DroppedHalves(ch, s) ==
    IF ch.to = s
    THEN [ch EXCEPT !.st = "dropped", !.back_fin = @ \/ alive]
    ELSE [ch EXCEPT !.back_st = "dropped", !.fin = @ \/ alive]

\* Faulty variant: the model of the failed call is kept.
ConnectFails_KeepsModel(j, kind) ==
    /\ jobs' = jobs \ {j}
    /\ connect_count' = connect_count
    /\ chans' = IF j.chan = 0 THEN chans
                ELSE [chans EXCEPT ![j.chan] = DroppedHalves(@, j.side)]
    /\ ret' = Returned("connect", j.side, j.chan, Err(kind))
    /\ UNCHANGED connects

\* The ? of lib.rs:115-116: the call returns the error; its model is dropped,
\* and with it the two halves of the stream, if open_bi had returned them.
ConnectFails(j, kind) ==
    /\ jobs' = jobs \ {j}
    /\ connect_count' = Released(connect_count, j.side)
    /\ chans' = IF j.chan = 0 THEN chans
                ELSE [chans EXCEPT ![j.chan] = DroppedHalves(@, j.side)]
    /\ ret' = Returned("connect", j.side, j.chan, Err(kind))
    /\ UNCHANGED connects

\* lib.rs:115: open_bi returns a fresh bidirectional stream, or the
\* ConnectionError of a lost connection.
ConnectOpen(j) ==
    /\ j.op = "connect" /\ j.pc = "open"
    /\ IF alive
       THEN /\ chans' = Append(chans, OpenedBy(Chan("bi", Peer(j.side), <<>>, FALSE),
                                               "connect", j.hdr.addr))
            /\ jobs' = (jobs \ {j}) \cup {[j EXCEPT !.pc = "header", !.chan = Len(chans) + 1]}
            /\ ret' = NoReturn
            /\ UNCHANGED <<connects, connect_count>>
       ELSE ConnectFails(j, "Connection")
    /\ UNCHANGED <<max_datagram_size, alive, assoc_use, sessions, tasks, sent, dissociated, budget>>

\* lib.rs:116-117: the header is written, and the Connect session returned
\* with the model and both halves of the stream.
ConnectHeaderWrite(j) ==
    /\ j.op = "connect" /\ j.pc = "header"
    /\ IF alive
       THEN /\ chans' = [chans EXCEPT ![j.chan].data = @ \o Marshal(j.hdr)]
            /\ jobs' = jobs \ {j}
            /\ connects' = connects \cup {ConnectSession(j.side, j.chan, j.hdr)}
            /\ ret' = Returned("connect", j.side, j.chan,
                        [Ok("Connect") EXCEPT !.chan = j.chan,
                            !.addr = ConnectAddr(ConnectSession(j.side, j.chan, j.hdr))])
            /\ UNCHANGED connect_count
       ELSE ConnectFails(j, "Io")
    /\ UNCHANGED <<max_datagram_size, alive, assoc_use, sessions, tasks, sent, dissociated, budget>>

\* The bytes a session's holder writes to it, once in each direction.
Written == {<<31>>}
\* The bytes written so far to the send half of session c.
SendHalf(c) ==
    IF chans[c.chan].to = c.side THEN chans[c.chan].back
    ELSE Slice(chans[c.chan].data, Len(Marshal(c.model)), Len(chans[c.chan].data))
SendHalfClosed(c) ==
    IF chans[c.chan].to = c.side THEN chans[c.chan].back_fin ELSE chans[c.chan].fin

\* AsyncWrite for Connect, lib.rs:336-342: poll_write on the send half.
ConnectWrite(c, bytes) ==
    /\ c \in connects
    /\ alive
    /\ ~SendHalfClosed(c)
    /\ SendHalf(c) = <<>>
    /\ chans' = IF chans[c.chan].to = c.side
                THEN [chans EXCEPT ![c.chan].back = @ \o bytes]
                ELSE [chans EXCEPT ![c.chan].data = @ \o bytes]
    /\ ret' = Returned("write", c.side, c.chan, [Ok("unit") EXCEPT !.a = Len(bytes)])
    /\ UNCHANGED <<max_datagram_size, alive, connects, connect_count, assoc_use, sessions, tasks, jobs, sent, dissociated, budget>>

\* AsyncRead for Connect, lib.rs:326-334: poll_read on the recv half, here of
\* one byte that has arrived.
ConnectRead(c) ==
    /\ c \in connects
    /\ LET ch == chans[c.chan]
       IN  IF ch.to = c.side
           THEN /\ ch.pos < Len(ch.data)
                /\ chans' = [chans EXCEPT ![c.chan].pos = @ + 1]
                /\ ret' = Returned("read", c.side, c.chan,
                                   [Ok("unit") EXCEPT !.bytes = <<ch.data[ch.pos + 1]>>])
           ELSE /\ ch.back_pos < Len(ch.back)
                /\ chans' = [chans EXCEPT ![c.chan].back_pos = @ + 1]
                /\ ret' = Returned("read", c.side, c.chan,
                                   [Ok("unit") EXCEPT !.bytes = <<ch.back[ch.back_pos + 1]>>])
    /\ UNCHANGED <<max_datagram_size, alive, connects, connect_count, assoc_use, sessions, tasks, jobs, sent, dissociated, budget>>

\* lib.rs:348-350: poll_close on the send half.
ConnectClose(c) ==
    /\ c \in connects
    /\ alive
    /\ ~SendHalfClosed(c)
    /\ chans' = IF chans[c.chan].to = c.side
                THEN [chans EXCEPT ![c.chan].back_fin = TRUE]
                ELSE [chans EXCEPT ![c.chan].fin = TRUE]
    /\ ret' = Returned("close", c.side, c.chan, Ok("unit"))
    /\ UNCHANGED <<max_datagram_size, alive, connects, connect_count, assoc_use, sessions, tasks, jobs, sent, dissociated, budget>>

\* The holder drops the session, and with it the model and both halves of
\* the stream.
ConnectDrop(c) ==
    /\ c \in connects
    /\ connects' = connects \ {c}
    /\ connect_count' = Released(connect_count, c.side)
    /\ chans' = [chans EXCEPT ![c.chan] = DroppedHalves(@, c.side)]
    /\ ret' = NoReturn
    /\ UNCHANGED <<max_datagram_size, alive, assoc_use, sessions, tasks, jobs, sent, dissociated, budget>>

\* --- dissociate, heartbeat
\* lib.rs:121: send_dissociate removes the association, before the first
\* await.  The call is then suspended at open_uni.
DissociateCall(s, assoc_id) ==
    /\ "dissociate" \in Senders(s)
    /\ budget > 0
    /\ budget' = budget - 1
    /\ sessions' = [sessions EXCEPT ![s] = RemoveSession(@, assoc_id)]
    /\ dissociated' = dissociated \cup {assoc_id}
    /\ assoc_use' = [assoc_use EXCEPT ![assoc_id] = "idle"]
    /\ jobs' = jobs \cup {Job("dissociate", s, budget, <<>>, Dissociate(assoc_id))}
    /\ ret' = NoReturn
    /\ UNCHANGED <<max_datagram_size, alive, connects, connect_count, chans, tasks, sent>>

\* lib.rs:122: open_uni returns a fresh unidirectional stream, or the
\* ConnectionError of a lost connection.
DissociateOpen(j) ==
    /\ j.op = "dissociate" /\ j.pc = "open"
    /\ IF alive
       THEN /\ chans' = Append(chans, OpenedBy(Chan("uni", Peer(j.side), <<>>, FALSE),
                                               "dissociate", j.hdr.assoc_id))
            /\ jobs' = (jobs \ {j}) \cup {[j EXCEPT !.pc = "header", !.chan = Len(chans) + 1]}
            /\ ret' = NoReturn
       ELSE CommandFails(j, "Connection")
    /\ UNCHANGED <<max_datagram_size, alive, connects, connect_count, assoc_use, sessions, tasks, sent, dissociated, budget>>

\* lib.rs:123: model.header().async_marshal(&mut send)
DissociateHeader(j) ==
    /\ j.op = "dissociate" /\ j.pc = "header"
    /\ IF alive
       THEN /\ chans' = [chans EXCEPT ![j.chan].data = @ \o Marshal(j.hdr)]
            /\ jobs' = (jobs \ {j}) \cup {[j EXCEPT !.pc = "close"]}
            /\ ret' = NoReturn
       ELSE CommandFails(j, "Io")
    /\ UNCHANGED <<max_datagram_size, alive, connects, connect_count, assoc_use, sessions, tasks, sent, dissociated, budget>>

\* lib.rs:124-125: send.close(), then Ok(()).
DissociateClose(j) ==
    /\ j.op = "dissociate" /\ j.pc = "close"
    /\ IF alive
       THEN /\ chans' = [chans EXCEPT ![j.chan].fin = TRUE]
            /\ jobs' = jobs \ {j}
            /\ ret' = Returned("dissociate", j.side, j.chan, Ok("unit"))
       ELSE CommandFails(j, "Io")
    /\ UNCHANGED <<max_datagram_size, alive, connects, connect_count, assoc_use, sessions, tasks, sent, dissociated, budget>>

\* Faulty variant: the buffer is built as packet_native builds its own, from a
\* Vec of header.len() zero bytes.
HeartbeatCall_ZeroFilled(s) ==
    /\ "heartbeat" \in Senders(s)
    /\ budget > 0
    /\ budget' = budget - 1
    /\ IF alive /\ SendDatagramOk(Zeros(HeaderLen(Heartbeat)) \o Marshal(Heartbeat),
                                  max_datagram_size)
       THEN /\ chans' = Append(chans,
                    OpenedBy(Chan("dg", Peer(s),
                                  Zeros(HeaderLen(Heartbeat)) \o Marshal(Heartbeat), TRUE),
                             "heartbeat", 0))
            /\ ret' = Returned("heartbeat", s, Len(chans) + 1, Ok("unit"))
       ELSE /\ chans' = chans
            /\ ret' = Returned("heartbeat", s, 0, Err("SendDatagram"))
    /\ UNCHANGED <<max_datagram_size, alive, connects, connect_count, assoc_use, sessions, tasks, jobs, sent, dissociated>>

\* lib.rs:128-134: the heartbeat header alone, as one datagram.
HeartbeatCall(s) ==
    /\ "heartbeat" \in Senders(s)
    /\ budget > 0
    /\ budget' = budget - 1
    /\ IF alive /\ SendDatagramOk(Marshal(Heartbeat), max_datagram_size)
       THEN /\ chans' = Append(chans,
                    OpenedBy(Chan("dg", Peer(s), Marshal(Heartbeat), TRUE), "heartbeat", 0))
            /\ ret' = Returned("heartbeat", s, Len(chans) + 1, Ok("unit"))
       ELSE /\ chans' = chans
            /\ ret' = Returned("heartbeat", s, 0,
                        [Err("SendDatagram") EXCEPT !.name =
                            IF ~alive THEN "ConnectionLost"
                            ELSE IF max_datagram_size = NoDatagram THEN "Disabled"
                            ELSE "TooLarge"])
    /\ UNCHANGED <<max_datagram_size, alive, connects, connect_count, assoc_use, sessions, tasks, jobs, sent, dissociated>>

\* The transport connection is lost.
ConnectionLost ==
    /\ alive
    /\ alive' = FALSE
    /\ ret' = NoReturn
    /\ UNCHANGED <<max_datagram_size, connects, connect_count, assoc_use, sessions, chans, tasks, jobs, sent, dissociated, budget>>


\* --------------------------------------------------------------- dispatch
\* The match arm each accept function takes for a decoded command: a
\* BadCommand error with the arm's command name, or the model call of the arm.
Bad(name) == [act |-> "bad", name |-> name]
Do(act) == [act |-> act, name |-> ""]

\* Faulty variant: the client's uni-stream arms with the server's Authenticate arm.
ClientUniArm_Authenticate(cmd) ==
    CASE cmd = "authenticate" -> Do("recv_authenticate")
      [] cmd = "connect" -> Bad("connect")
      [] cmd = "packet" -> Do("recv_packet")
      [] cmd = "dissociate" -> Bad("dissociate")
      [] cmd = "heartbeat" -> Bad("heartbeat")

\* Connection<side::Client>::accept_uni_stream, lib.rs:142-156
ClientUniArm(cmd) ==
    CASE cmd = "authenticate" -> Bad("authenticate")
      [] cmd = "connect" -> Bad("connect")
      [] cmd = "packet" -> Do("recv_packet")
      [] cmd = "dissociate" -> Bad("dissociate")
      [] cmd = "heartbeat" -> Bad("heartbeat")

\* Connection<side::Client>::accept_bi_stream, lib.rs:169-176
ClientBiArm(cmd) ==
    CASE cmd = "authenticate" -> Bad("authenticate")
      [] cmd = "connect" -> Bad("connect")
      [] cmd = "packet" -> Bad("packet")
      [] cmd = "dissociate" -> Bad("dissociate")
      [] cmd = "heartbeat" -> Bad("heartbeat")

\* Faulty variant: the client's datagram arms with the server's Heartbeat arm.
ClientDatagramArm_Heartbeat(cmd) ==
    CASE cmd = "authenticate" -> Bad("authenticate")
      [] cmd = "connect" -> Bad("connect")
      [] cmd = "packet" -> Do("recv_packet")
      [] cmd = "dissociate" -> Bad("dissociate")
      [] cmd = "heartbeat" -> Do("recv_heartbeat")

\* Connection<side::Client>::accept_datagram, lib.rs:187-210
ClientDatagramArm(cmd) ==
    CASE cmd = "authenticate" -> Bad("authenticate")
      [] cmd = "connect" -> Bad("connect")
      [] cmd = "packet" -> Do("recv_packet")
      [] cmd = "dissociate" -> Bad("dissociate")
      [] cmd = "heartbeat" -> Bad("heartbeat")

\* Connection<side::Server>::accept_uni_stream, lib.rs:229-245
ServerUniArm(cmd) ==
    CASE cmd = "authenticate" -> Do("recv_authenticate")
      [] cmd = "connect" -> Bad("connect")
      [] cmd = "packet" -> Do("recv_packet_unrestricted")
      [] cmd = "dissociate" -> Do("recv_dissociate")
      [] cmd = "heartbeat" -> Bad("heartbeat")

\* Connection<side::Server>::accept_bi_stream, lib.rs:258-268
ServerBiArm(cmd) ==
    CASE cmd = "authenticate" -> Bad("authenticate")
      [] cmd = "connect" -> Do("recv_connect")
      [] cmd = "packet" -> Bad("packet")
      [] cmd = "dissociate" -> Bad("dissociate")
      [] cmd = "heartbeat" -> Bad("heartbeat")

\* Connection<side::Server>::accept_datagram, lib.rs:279-296
ServerDatagramArm(cmd) ==
    CASE cmd = "authenticate" -> Bad("authenticate")
      [] cmd = "connect" -> Bad("connect")
      [] cmd = "packet" -> Do("recv_packet_unrestricted")
      [] cmd = "dissociate" -> Bad("dissociate")
      [] cmd = "heartbeat" -> Do("recv_heartbeat")

Arm(s, kind, cmd) ==
    CASE s = "client" /\ kind = "uni" -> ClientUniArm(cmd)
      [] s = "client" /\ kind = "bi" -> ClientBiArm(cmd)
      [] s = "client" /\ kind = "dg" -> ClientDatagramArm(cmd)
      [] s = "server" /\ kind = "uni" -> ServerUniArm(cmd)
      [] s = "server" /\ kind = "bi" -> ServerBiArm(cmd)
      [] s = "server" /\ kind = "dg" -> ServerDatagramArm(cmd)

\* Error::Unmarshal{UniStream,BiStream,Datagram} and Error::BadCommand{..}
UnmarshalError(kind) ==
    CASE kind = "uni" -> "UnmarshalUniStream"
      [] kind = "bi" -> "UnmarshalBiStream"
      [] kind = "dg" -> "UnmarshalDatagram"
BadCommandError(kind) ==
    CASE kind = "uni" -> "BadCommandUniStream"
      [] kind = "bi" -> "BadCommandBiStream"
      [] kind = "dg" -> "BadCommandDatagram"

\* Faulty variant: what the cursor has not read (Buf::copy_to_bytes of the
\* remainder) in place of the buffer.
IntoInner_Remaining(data, pos) == SubSeq(data, pos + 1, Len(data))

\* Cursor::into_inner: the whole buffer, whatever the cursor's position.
IntoInner(data, pos) == data

\* What an error carries: the stream(s) it was read from, or the datagram.
Carrying(res, c, ch, pos) ==
    IF ch.kind = "dg" THEN [res EXCEPT !.bytes = IntoInner(ch.data, pos)]
    ELSE [res EXCEPT !.chan = c]

\* A Packet: the model's Packet<Rx> (its header) and its PacketSource, either
\* the stream still to be read (Quic) or the bytes (Native).
PacketTask(s, h, src, c, buf) ==
    [side |-> s, hdr |-> h, src |-> src, chan |-> c, buf |-> buf]
TaskPacket(c) == [Ok("Packet") EXCEPT !.chan = c]

\* lib.rs:197: the client takes the payload when the declared size ends
\* before the end of the datagram.
ClientPayloadFits(pos, size, len) == pos + size < len
\* lib.rs:287: Bytes::slice panics when the range ends past the buffer.
SliceInBounds(pos, size, len) == pos + size <= len

\* What one accept call does: the side's sessions after it, the channel after
\* it, the Packet it returns (if any), its result, the associations it
\* dissociates.
Outcome(ss, ch, new, res, dis) ==
    [ss |-> ss, ch |-> ch, new |-> new, res |-> res, dis |-> dis]
Taken(ch, pos, st) == [ch EXCEPT !.pos = pos, !.st = st]

\* Faulty variant: the client's arm registers the packet as the server's does.
UniPacket_Unrestricted(s, c, ch, ss, d, act) ==
    Outcome(RecvPacketUnrestricted(ss, d.hdr.assoc_id), Taken(ch, d.used, "task"),
            {PacketTask(s, d.hdr, "quic", c, <<>>)}, TaskPacket(c), {})

\* The Header::Packet arm of accept_uni_stream, lib.rs:145-152 and 235-238.
UniPacket(s, c, ch, ss, d, act) ==
    IF act = "recv_packet" /\ ~RecvPacketIsSome(ss, d.hdr.assoc_id)
    THEN Outcome(ss, Taken(ch, d.used, "dropped"), {},
                 [Err("InvalidUdpSession") EXCEPT !.a = d.hdr.assoc_id], {})
    ELSE Outcome(IF act = "recv_packet" THEN ss
                 ELSE RecvPacketUnrestricted(ss, d.hdr.assoc_id),
                 Taken(ch, d.used, "task"),
                 {PacketTask(s, d.hdr, "quic", c, <<>>)}, TaskPacket(c), {})

\* The Header::Packet arm of accept_datagram, lib.rs:192-206 and 284-289.
DatagramPacket(s, c, ch, ss, d, act) ==
    LET size == d.hdr.size
        len == Len(ch.data)
        task == PacketTask(s, d.hdr, "native", c, Slice(ch.data, d.used, d.used + size))
    IN  IF act = "recv_packet"
        THEN IF ~RecvPacketIsSome(ss, d.hdr.assoc_id)
             THEN Outcome(ss, Taken(ch, d.used, "dropped"), {},
                          [Err("InvalidUdpSession") EXCEPT !.a = d.hdr.assoc_id], {})
             ELSE IF ClientPayloadFits(d.used, size, len)
             THEN Outcome(ss, Taken(ch, d.used + size, "task"), {task}, TaskPacket(c), {})
             ELSE Outcome(ss, Taken(ch, d.used, "dropped"), {},
                          [Err("PayloadLength") EXCEPT !.a = size, !.b = len - d.used], {})
        ELSE IF SliceInBounds(d.used, size, len)
             THEN Outcome(RecvPacketUnrestricted(ss, d.hdr.assoc_id),
                          Taken(ch, d.used + size, "task"), {task}, TaskPacket(c), {})
             ELSE Outcome(RecvPacketUnrestricted(ss, d.hdr.assoc_id),
                          Taken(ch, d.used, "dropped"), {}, Panic, {})

\* accept_uni_stream / accept_bi_stream / accept_datagram of side s on
\* channel c: the header is decoded, then the arm of the command is taken.
Classify(s, c) ==
    LET ch == chans[c]
        ss == sessions[s]
        d == Unmarshal(ch.data)
        arm == Arm(s, ch.kind, d.hdr.cmd)
    IN  IF d.st # "ok"
        THEN Outcome(ss, Taken(ch, d.used, "caller"), {},
                     Carrying(Err(UnmarshalError(ch.kind)), c, ch, d.used), {})
        ELSE CASE arm.act = "bad" ->
                    Outcome(ss, Taken(ch, d.used, "caller"), {},
                            Carrying([Err(BadCommandError(ch.kind)) EXCEPT !.name = arm.name],
                                     c, ch, d.used), {})
               [] arm.act = "recv_authenticate" ->
                    Outcome(ss, Taken(ch, d.used, "dropped"), {},
                            [Ok("Authenticate") EXCEPT !.a = d.hdr.token], {})
               [] arm.act = "recv_connect" ->
                    Outcome(ss, Taken(ch, d.used, "caller"), {},
                            [Ok("Connect") EXCEPT !.chan = c,
                                !.addr = ConnectAddr(ConnectSession(s, c, d.hdr))], {})
               [] arm.act = "recv_dissociate" ->
                    Outcome(RemoveSession(ss, d.hdr.assoc_id), Taken(ch, d.used, "dropped"),
                            {}, [Ok("Dissociate") EXCEPT !.a = d.hdr.assoc_id],
                            {d.hdr.assoc_id})
               [] arm.act = "recv_heartbeat" ->
                    Outcome(ss, Taken(ch, d.used, "dropped"), {}, Ok("Heartbeat"), {})
               [] arm.act \in {"recv_packet", "recv_packet_unrestricted"} ->
                    IF ch.kind = "dg" THEN DatagramPacket(s, c, ch, ss, d, arm.act)
                    ELSE UniPacket(s, c, ch, ss, d, arm.act)

\* The header can be decoded, or never will be: async_unmarshal has what it
\* awaits.
\* a read on a lost connection fails once what has arrived is used up.
HeaderReadable(ch) == ch.fin \/ ~alive \/ Unmarshal(ch.data).st # "eof"

\* lib.rs:260-262: recv_connect registers the task, and the Connect session
\* holds the model and both halves of the stream.
AcceptedConnects(s, c, res) ==
    IF res.tag = "ok" /\ res.kind = "Connect"
    THEN {ConnectSession(s, c, Unmarshal(chans[c].data).hdr)} ELSE {}

Accept(op, kind, s, c) ==
    /\ chans[c].kind = kind
    /\ chans[c].to = s
    /\ chans[c].st = "wire"
    /\ HeaderReadable(chans[c])
    /\ LET o == Classify(s, c)
       IN  /\ sessions' = [sessions EXCEPT ![s] = o.ss]
           /\ chans' = [chans EXCEPT ![c] = o.ch]
           /\ tasks' = tasks \cup o.new
           /\ ret' = Returned(op, s, c, o.res)
           /\ dissociated' = dissociated \cup o.dis
           /\ connects' = connects \cup AcceptedConnects(s, c, o.res)
           /\ connect_count' = IF AcceptedConnects(s, c, o.res) = {} THEN connect_count
                                ELSE Registered(connect_count, s)
    /\ UNCHANGED <<max_datagram_size, alive, assoc_use, jobs, sent, budget>>

AcceptUniStream(s, c) == Accept("accept_uni_stream", "uni", s, c)
AcceptBiStream(s, c) == Accept("accept_bi_stream", "bi", s, c)
AcceptDatagram(s, c) == Accept("accept_datagram", "dg", s, c)


\* ---------------------------------------------------------- Packet::accept
\* Faulty variant: a buffer one byte shorter than the declared size.
ReadExact_OneShort(ch, size) ==
    IF Len(ch.data) - ch.pos >= size
    THEN <<"ok", Slice(ch.data, ch.pos, ch.pos + size - 1)>>
    ELSE <<"eof", <<>>>>

\* Faulty variant: read in place of read_exact, which returns what the stream has.
ReadExact_Partial(ch, size) ==
    <<"ok", Slice(ch.data, ch.pos, Min(ch.pos + size, Len(ch.data)))>>

\* lib.rs:372-374: read_exact of the declared size from the stream; an error
\* when the stream ends before that.  <<"ok" | "eof", bytes read>>
ReadExact(ch, size) ==
    IF Len(ch.data) - ch.pos >= size
    THEN <<"ok", Slice(ch.data, ch.pos, ch.pos + size)>>
    ELSE <<"eof", <<>>>>

\* read_exact has what it awaits: the bytes, or the end of the stream.
BodyReadable(ch, size) == ch.fin \/ ~alive \/ Len(ch.data) - ch.pos >= size

\* lib.rs:370-377: the payload of the Packet, from its source.
Resolve(t) ==
    IF t.src = "quic" THEN ReadExact(chans[t.chan], t.hdr.size) ELSE <<"ok", t.buf>>

\* The history of a sent packet, when one of its channels is accepted.
Accepted(p, c) ==
    IF \E k \in 1..Len(p.chans) : p.chans[k] = c THEN [p EXCEPT !.acc = @ \cup {c}] ELSE p

\* lib.rs:369-386
PacketAccept(t) ==
    /\ t \in tasks
    /\ t.src = "quic" => BodyReadable(chans[t.chan], t.hdr.size)
    /\ tasks' = tasks \ {t}
    /\ LET r == Resolve(t)
           ch == chans[t.chan]
           asm == Assemble(sessions[t.side], t.hdr, r[2])
       IN  IF r[1] = "eof"
           THEN /\ ret' = Returned("accept", t.side, t.chan,
                                   [Err("Io") EXCEPT !.name =
                                        IF ch.fin THEN "UnexpectedEof"
                                        ELSE "ConnectionLost"])
                /\ chans' = [chans EXCEPT ![t.chan] = Taken(ch, Len(ch.data), "dropped")]
                /\ UNCHANGED sessions
           ELSE /\ sessions' = [sessions EXCEPT ![t.side] = asm[1]]
                /\ chans' = [chans EXCEPT ![t.chan] =
                                Taken(ch, IF t.src = "quic" THEN ch.pos + t.hdr.size
                                          ELSE ch.pos, "dropped")]
                /\ ret' = Returned("accept", t.side, t.chan,
                        CASE asm[2] = "some" ->
                                [Ok("Some") EXCEPT !.bytes = asm[3], !.addr = asm[4],
                                                   !.a = t.hdr.assoc_id]
                          [] asm[2] = "none" -> Ok("None")
                          [] asm[2] = "err" -> Err("Assemble"))
    /\ sent' = [i \in 1..Len(sent) |-> Accepted(sent[i], t.chan)]
    /\ assoc_use' = IF t.side = "client" /\ Resolve(t)[1] = "ok"
                        /\ assoc_use[t.hdr.assoc_id] = "idle"
                     THEN [assoc_use EXCEPT ![t.hdr.assoc_id] = "accepted"]
                     ELSE assoc_use
    /\ UNCHANGED <<max_datagram_size, alive, connects, connect_count, jobs, dissociated, budget>>

\* --------------------------------------------------------- collect_garbage
Timeouts == 0..MaxAge

\* The reassembly buffer side s holds for sent packet p, if any.
BufferOf(s, p) == {b \in sessions[s][p.assoc_id].pkt_buf : b.pkt_id = p.pkt_id}

\* The history of a sent packet when its receiver collects garbage: dirty, a
\* sweep ran after one of its fragments was accepted; swept, a sweep with
\* timeout 0 ran while it was incomplete; expired, a sweep ran when its buffer
\* had reached the age of the sweep's timeout.
Swept(p, s, timeout) ==
    IF p.from # Peer(s) THEN p
    ELSE [p EXCEPT
            !.dirty = @ \/ p.acc # {},
            !.swept = @ \/ (timeout = 0 /\ p.acc # {} /\ Cardinality(p.acc) < p.total),
            !.expired = @ \/ \E b \in BufferOf(s, p) : b.age >= timeout]

\* Faulty variant: the model's sweep is not called.
CollectGarbage_NoSweep(s, timeout) ==
    /\ ret' = Returned("collect_garbage", s, 0, [Ok("unit") EXCEPT !.a = timeout])
    /\ sent' = [i \in 1..Len(sent) |-> Swept(sent[i], s, timeout)]
    /\ UNCHANGED <<max_datagram_size, alive, connects, connect_count, assoc_use, sessions, chans, tasks, jobs, dissociated, budget>>

\* Faulty variant: the model's sweep is called with no timeout.
CollectGarbage_NoTimeout(s, timeout) ==
    /\ sessions' = [sessions EXCEPT ![s] = CollectGarbageModel(@, 0)]
    /\ ret' = Returned("collect_garbage", s, 0, [Ok("unit") EXCEPT !.a = timeout])
    /\ sent' = [i \in 1..Len(sent) |-> Swept(sent[i], s, timeout)]
    /\ UNCHANGED <<max_datagram_size, alive, connects, connect_count, assoc_use, chans, tasks, jobs, dissociated, budget>>

\* lib.rs:91-93
CollectGarbage(s, timeout) ==
    /\ sessions' = [sessions EXCEPT ![s] = CollectGarbageModel(@, timeout)]
    /\ ret' = Returned("collect_garbage", s, 0, [Ok("unit") EXCEPT !.a = timeout])
    /\ sent' = [i \in 1..Len(sent) |-> Swept(sent[i], s, timeout)]
    /\ UNCHANGED <<max_datagram_size, alive, connects, connect_count, assoc_use, chans, tasks, jobs, dissociated, budget>>

\* Time passes.
Tick ==
    /\ sessions' = [s \in Sides |-> Older(sessions[s])]
    /\ sessions' # sessions
    /\ ret' = NoReturn
    /\ UNCHANGED <<max_datagram_size, alive, connects, connect_count, assoc_use, chans, tasks, jobs, sent, dissociated, budget>>

\* ------------------------------------------------------- a peer's own bytes
\* What a peer that does not use this adapter may put on a channel: bytes that
\* are no header, each command's header, and Packet headers followed by as
\* many bytes as they declare, by more and by fewer.
CraftedPackets ==
    {Marshal(PacketHeader(1, 0, 1, 0, size, 1)) \o body :
        size \in {1, 2}, body \in {<<21>>, <<21, 22>>}}
CraftedBytes ==
    {<<0>>, <<VERSION>>, <<VERSION, 9>>}
    \cup {Marshal(h) : h \in {Authenticate(7), ConnectHeader(1), Dissociate(1), Heartbeat}}
    \cup CraftedPackets

Inject(kind, to, bytes) ==
    /\ budget > 0
    /\ budget' = budget - 1
    /\ chans' = Append(chans, [Chan(kind, to, bytes, TRUE) EXCEPT !.by = "raw"])
    /\ ret' = NoReturn
    /\ UNCHANGED <<max_datagram_size, alive, connects, connect_count, assoc_use, sessions, tasks, jobs, sent, dissociated>>

\* ------------------------------------------------------------ behaviours
\* Both Connections just constructed (lib.rs:97-103, 215-221), with n send
\* calls to come.
Start(n) ==
    /\ max_datagram_size \in DatagramSizes
    /\ sessions = [s \in Sides |-> [a \in Assocs |-> ClosedSession]]
    /\ chans = <<>>
    /\ tasks = {}
    /\ jobs = {}
    /\ ret = NoReturn
    /\ sent = <<>>
    /\ dissociated = {}
    /\ budget = n
    /\ alive = TRUE
    /\ connects = {}
    /\ connect_count = [s \in Sides |-> 0]
    /\ assoc_use = [a \in Assocs |-> "idle"]

Init == Start(MaxSends)

\* The sending operations, and the steps of the suspended ones.  The caller
\* has at most MaxJobs calls suspended at a time.
Send ==
    \/ \E s \in Sides, p \in Payloads, addr \in Addrs, a \in Assocs : PacketNative(s, p, addr, a)
    \/ \E s \in Sides, p \in Payloads, addr \in Addrs, a \in Assocs :
            Cardinality(jobs) < MaxJobs /\ PacketQuic(s, p, addr, a)
    \/ \E j \in jobs : QuicOpen(j)
    \/ \E j \in jobs : QuicHeader(j)
    \/ \E j \in jobs : QuicBody(j)
    \/ \E j \in jobs : QuicClose(j)
    \/ \E s \in Sides, token \in Tokens :
            Cardinality(jobs) < MaxJobs /\ AuthenticateCall(s, token)
    \/ \E j \in jobs : AuthenticateOpen(j)
    \/ \E j \in jobs : AuthenticateHeader(j)
    \/ \E j \in jobs : AuthenticateClose(j)
    \/ \E s \in Sides, addr \in Targets : Cardinality(jobs) < MaxJobs /\ ConnectCall(s, addr)
    \/ \E j \in jobs : ConnectOpen(j)
    \/ \E j \in jobs : ConnectHeaderWrite(j)
    \/ \E s \in Sides, a \in Assocs : Cardinality(jobs) < MaxJobs /\ DissociateCall(s, a)
    \/ \E j \in jobs : DissociateOpen(j)
    \/ \E j \in jobs : DissociateHeader(j)
    \/ \E j \in jobs : DissociateClose(j)
    \/ \E s \in Sides : HeartbeatCall(s)

\* The receiving operations, on the channels the caller's accept loop hands in.
Receive ==
    \/ \E s \in Sides, c \in 1..Len(chans) : AcceptUniStream(s, c)
    \/ \E s \in Sides, c \in 1..Len(chans) : AcceptBiStream(s, c)
    \/ \E s \in Sides, c \in 1..Len(chans) : AcceptDatagram(s, c)
    \/ \E t \in tasks : PacketAccept(t)

Next ==
    \/ Send
    \/ Receive
    \/ \E s \in Sides, timeout \in Timeouts : CollectGarbage(s, timeout)
    \/ Tick

\* Both ends use the adapter, and collect garbage as time passes.
Spec == Init /\ [][Next]_vars

NextWire ==
    \/ Send
    \/ Receive
    \/ \E kind \in {"uni", "bi", "dg"}, to \in Sides, bytes \in CraftedBytes :
            Inject(kind, to, bytes)

\* The peer may also write bytes of its own to the transport.
SpecWire == Init /\ [][NextWire]_vars

\* Calls suspended at a time, on clones of one Connection.
MaxConcurrent == 2

NextQuic ==
    \/ \E s \in Sides, p \in Payloads, addr \in Addrs, a \in Assocs : PacketNative(s, p, addr, a)
    \/ \E s \in Sides, p \in Payloads, addr \in Addrs, a \in Assocs :
            Cardinality(jobs) < MaxConcurrent /\ PacketQuic(s, p, addr, a)
    \/ \E j \in jobs : QuicOpen(j)
    \/ \E j \in jobs : QuicHeader(j)
    \/ \E j \in jobs : QuicBody(j)
    \/ \E j \in jobs : QuicClose(j)
    \/ ConnectionLost

\* Concurrent packet sends over a connection that may be lost at any time.
SpecQuic == Init /\ [][NextQuic]_vars

NextConn ==
    \/ \E addr \in Targets : Cardinality(jobs) < MaxConcurrent /\ ConnectCall("client", addr)
    \/ \E j \in jobs : ConnectOpen(j)
    \/ \E j \in jobs : ConnectHeaderWrite(j)
    \/ \E s \in Sides, c \in 1..Len(chans) : AcceptBiStream(s, c)
    \/ \E c \in connects, bytes \in Written : ConnectWrite(c, bytes)
    \/ \E c \in connects : ConnectRead(c)
    \/ \E c \in connects : ConnectClose(c)
    \/ \E c \in connects : ConnectDrop(c)
    \/ ConnectionLost

\* Concurrent connects, the sessions they make on both sides and the use and
\* the drop of those, over a connection that may be lost at any time.
SpecConn == Init /\ [][NextConn]_vars

NextCommand ==
    \/ \E token \in Tokens :
            Cardinality(jobs) < MaxConcurrent /\ AuthenticateCall("client", token)
    \/ \E j \in jobs : AuthenticateOpen(j)
    \/ \E j \in jobs : AuthenticateHeader(j)
    \/ \E j \in jobs : AuthenticateClose(j)
    \/ \E a \in Assocs : Cardinality(jobs) < MaxConcurrent /\ DissociateCall("client", a)
    \/ \E j \in jobs : DissociateOpen(j)
    \/ \E j \in jobs : DissociateHeader(j)
    \/ \E j \in jobs : DissociateClose(j)
    \/ \E s \in Sides, c \in 1..Len(chans) : AcceptUniStream(s, c)
    \/ ConnectionLost

\* Concurrent authenticate and dissociate calls, and the server classifying
\* their streams, over a connection that may be lost at any time.
SpecCommand == Init /\ [][NextCommand]_vars

\* Send calls in a behaviour of SpecAssoc.
MaxAssocSends == 2
\* A well-formed single-fragment packet of association 1, with one byte after
\* its payload.
AssocPackets == {Marshal(PacketHeader(1, 0, 1, 0, 1, 1)) \o <<21, 22>>}
\* What the peer has put on the transport: such a packet on a unidirectional
\* stream and in a datagram, to each side.
AssocChans ==
    [c \in 1..4 |->
        [Chan(IF c % 2 = 1 THEN "uni" ELSE "dg", IF c <= 2 THEN "client" ELSE "server",
              CHOOSE bytes \in AssocPackets : TRUE, TRUE) EXCEPT !.by = "raw"]]

NextAssoc ==
    \/ \E a \in Assocs : PacketNative("client", <<11>>, 1, a)
    \/ Cardinality(jobs) < MaxJobs /\ DissociateCall("client", 1)
    \/ \E j \in jobs : DissociateOpen(j)
    \/ \E j \in jobs : DissociateHeader(j)
    \/ \E j \in jobs : DissociateClose(j)
    \/ \E s \in Sides, c \in 1..Len(chans) : AcceptUniStream(s, c)
    \/ \E s \in Sides, c \in 1..Len(chans) : AcceptDatagram(s, c)
    \/ \E t \in tasks : PacketAccept(t)
    \/ ConnectionLost

\* Both Connections just constructed, the peer's packets waiting on the
\* transport, which has no datagrams or datagrams large enough for the send.
StartAssoc ==
    /\ max_datagram_size \in {NoDatagram, BigDatagram}
    /\ sessions = [s \in Sides |-> [a \in Assocs |-> ClosedSession]]
    /\ chans = AssocChans
    /\ tasks = {}
    /\ jobs = {}
    /\ ret = NoReturn
    /\ sent = <<>>
    /\ dissociated = {}
    /\ budget = MaxAssocSends
    /\ alive = TRUE
    /\ connects = {}
    /\ connect_count = [s \in Sides |-> 0]
    /\ assoc_use = [a \in Assocs |-> "idle"]

\* A client that opens and dissociates associations while packets for them
\* arrive, on both sides, from a peer writing to the transport.
SpecAssoc == StartAssoc /\ [][NextAssoc]_vars

\* ------------------------------------------------------------------ claims
AcceptOps == {"accept_uni_stream", "accept_bi_stream", "accept_datagram"}
\* The channel the last call was made on, and the header at its start.
RetChan == chans[ret.chan]
RetHeader == Unmarshal(chans[ret.chan].data)
\* The channels a sent packet's fragments went out on.
ChansOf(p) == {p.chans[k] : k \in 1..Len(p.chans)}

\* The legality table of the specification (4.3): the (command, channel kind,
\* role) triples it marks "reject".
TableRejects(cmd, kind, s) ==
    CASE cmd = "authenticate" -> kind # "uni" \/ s = "client"
      [] cmd = "connect" -> kind # "bi" \/ s = "client"
      [] cmd = "packet" -> kind = "bi"
      [] cmd = "dissociate" -> kind # "uni" \/ s = "client"
      [] cmd = "heartbeat" -> kind # "dg" \/ s = "client"

\* C1: for every (command, channel kind, role) triple the legality table
\* rejects, the accept function returns the BadCommand error of the channel
\* kind, with the name of the decoded command and the original stream(s) or
\* the whole original datagram, and returns no Task.
C1_RejectedIsBadCommand ==
    (ret.op \in AcceptOps /\ RetHeader.st = "ok"
        /\ TableRejects(RetHeader.hdr.cmd, RetChan.kind, ret.side)) =>
        /\ ret.res.tag = "err"
        /\ ret.res.kind = (CASE RetChan.kind = "uni" -> "BadCommandUniStream"
                             [] RetChan.kind = "bi" -> "BadCommandBiStream"
                             [] RetChan.kind = "dg" -> "BadCommandDatagram")
        /\ ret.res.name = RetHeader.hdr.cmd
        /\ IF RetChan.kind = "dg" THEN ret.res.bytes = RetChan.data
           ELSE ret.res.chan = ret.chan /\ RetChan.st = "caller"
        /\ ~\E t \in tasks : t.chan = ret.chan

\* A client was handed a heartbeat datagram, a server a packet on a
\* bidirectional stream: each got the BadCommand error.
C1_Witness ==
    \/ /\ ret.op = "accept_datagram" /\ ret.side = "client"
       /\ ret.res.kind = "BadCommandDatagram" /\ ret.res.name = "heartbeat"
       /\ ret.res.bytes = <<VERSION, TYPE_HEARTBEAT>>
    \/ /\ ret.op = "accept_bi_stream" /\ ret.side = "server"
       /\ ret.res.kind = "BadCommandBiStream" /\ ret.res.name = "packet"
       /\ ret.res.chan = ret.chan

\* C2: a single-fragment packet a client sends with packet_native and the
\* server receives: accept_datagram returns Task::Packet, and accept() on it
\* Some((payload, addr, assoc_id)) as sent.
C2_NativeRoundTrip ==
    \A i \in 1..Len(sent) :
        (sent[i].from = "client" /\ sent[i].via = "native" /\ sent[i].total = 1
            /\ ret.chan \in ChansOf(sent[i])) =>
            /\ (ret.op = "accept_datagram" /\ ret.side = "server") =>
                    ret.res.tag = "ok" /\ ret.res.kind = "Packet"
            /\ ret.op = "accept" =>
                    /\ ret.res.tag = "ok" /\ ret.res.kind = "Some"
                    /\ ret.res.bytes = sent[i].payload
                    /\ ret.res.addr = sent[i].addr
                    /\ ret.res.a = sent[i].assoc_id

\* C3: a client handed a datagram that is a Packet header, for an association
\* the client has opened, followed by exactly the declared number of payload
\* bytes, returns Task::Packet whose resident payload is those bytes.
C3_ClientAcceptsExactDatagram ==
    (ret.op = "accept_datagram" /\ ret.side = "client" /\ RetHeader.st = "ok"
        /\ RetHeader.hdr.cmd = "packet"
        /\ sessions["client"][RetHeader.hdr.assoc_id].open
        /\ Len(RetChan.data) - RetHeader.used = RetHeader.hdr.size) =>
        /\ ret.res.tag = "ok" /\ ret.res.kind = "Packet"
        /\ \E t \in tasks :
                /\ t.chan = ret.chan /\ t.src = "native"
                /\ t.buf = Slice(RetChan.data, RetHeader.used, Len(RetChan.data))

\* C4: for either role (for a client, on an association it has opened),
\* accept_datagram on a datagram whose Packet header declares more payload
\* bytes than follow the header returns Error::PayloadLength(declared,
\* available); it neither aborts nor returns a Packet.
C4_ShortDatagramIsPayloadLength ==
    (ret.op = "accept_datagram" /\ RetHeader.st = "ok" /\ RetHeader.hdr.cmd = "packet"
        /\ RetHeader.hdr.size > Len(RetChan.data) - RetHeader.used
        /\ (ret.side = "client" => sessions["client"][RetHeader.hdr.assoc_id].open)) =>
        /\ ret.res.tag = "err" /\ ret.res.kind = "PayloadLength"
        /\ ret.res.a = RetHeader.hdr.size
        /\ ret.res.b = Len(RetChan.data) - RetHeader.used

\* C5, as claimed: a server-role Connection can send a heartbeat.
C5_ServerCanHeartbeat == budget > 0 => ENABLED HeartbeatCall("server")

\* C5, amended: heartbeat is a client-only sender, as authenticate, connect
\* and dissociate are; a server-role Connection has packet_native and
\* packet_quic and no other sender.
C5_HeartbeatIsClientOnly ==
    /\ ~ENABLED HeartbeatCall("server")
    /\ ~ENABLED AuthenticateCall("server", 7)
    /\ ~ENABLED ConnectCall("server", 1)
    /\ ~ENABLED DissociateCall("server", 1)
    /\ budget > 0 => /\ ENABLED HeartbeatCall("client")
                     /\ ENABLED PacketNative("server", <<11>>, 1, 1)
    /\ (budget > 0 /\ jobs = {}) => ENABLED PacketQuic("server", <<11>>, 1, 1)
    /\ ret.op \in {"heartbeat", "authenticate", "connect", "dissociate"} => ret.side = "client"

\* The client has sent a heartbeat and the server a packet.
C5_Witness ==
    /\ ret.op = "heartbeat" /\ ret.side = "client" /\ ret.res.tag = "ok"
    /\ \E i \in 1..Len(sent) : sent[i].from = "server"

\* C6: every Task a client-role connection returns from an accept function is
\* Task::Packet, and a server-role connection opens no bidirectional stream
\* and sends no Connect, Dissociate or Authenticate header on any channel.
C6_RoleValidity ==
    /\ (ret.op \in AcceptOps /\ ret.side = "client" /\ ret.res.tag = "ok") =>
            ret.res.kind = "Packet"
    /\ \A c \in 1..Len(chans) :
            (chans[c].to = "client" /\ chans[c].by = "conn") =>
                /\ chans[c].kind # "bi"
                /\ Unmarshal(chans[c].data).st = "ok" =>
                        Unmarshal(chans[c].data).hdr.cmd
                            \notin {"connect", "dissociate", "authenticate"}

\* The client classified a stream the server's packet_quic wrote, and got
\* Task::Packet.
C6_Witness ==
    /\ ret.op = "accept_uni_stream" /\ ret.side = "client"
    /\ ret.res.tag = "ok" /\ ret.res.kind = "Packet"
    /\ RetChan.by = "conn"

\* C7: a send of a payload of P bytes with maximum unit size M (the
\* transport's maximum datagram size for packet_native, the maximum packet
\* size of packet_quic) emits ceil(P / M') units, M' being M less the header
\* overhead (of a header with or without the address); each unit is a header
\* and its fragment in at most M bytes, the headers declare that fragment
\* count and carry the indices 0..count-1 in order.
C7_Fragmentation ==
    \A i \in 1..Len(sent) :
        LET p == sent[i]
            M == IF p.via = "native" THEN max_datagram_size ELSE QuicMaxPktSize
            n == Len(p.chans)
        IN  p.done =>
                /\ n >= CeilDiv(Len(p.payload), M - Len(Marshal(PacketHeader(0, 0, 0, 0, 0, NoneAddr))))
                /\ n <= CeilDiv(Len(p.payload), M - Len(Marshal(PacketHeader(0, 0, 0, 0, 0, p.addr))))
                /\ \A k \in 1..n :
                        LET d == Unmarshal(chans[p.chans[k]].data)
                        IN  /\ Len(chans[p.chans[k]].data) <= M
                            /\ d.st = "ok" /\ d.hdr.cmd = "packet"
                            /\ d.hdr.frag_total = n /\ d.hdr.frag_id = k - 1
                            /\ Len(chans[p.chans[k]].data) = d.used + d.hdr.size

\* What accept() returns for a fragment of sent packet p: Some with the
\* packet as sent once every fragment has been accepted, None before.
AcceptReassembles(p) ==
    IF Len(p.chans) = p.total /\ p.acc = ChansOf(p)
    THEN /\ ret.res.tag = "ok" /\ ret.res.kind = "Some"
         /\ ret.res.bytes = p.payload /\ ret.res.addr = p.addr /\ ret.res.a = p.assoc_id
    ELSE ret.res.tag = "ok" /\ ret.res.kind = "None"

\* C8, as claimed: with no garbage collection between the accepts of a sent
\* packet's fragments, whatever their order and whatever else is accepted in
\* between, every accept() returns None except the one that supplies the
\* last missing fragment, which returns Some with the payload, address and
\* association id as sent.
C8_ReassemblyAnyOrder ==
    \A i \in 1..Len(sent) :
        (ret.op = "accept" /\ ret.chan \in ChansOf(sent[i]) /\ ~sent[i].dirty) =>
            AcceptReassembles(sent[i])

\* C8, amended: the same, provided also that no dissociate has named the
\* packet's association, neither a dissociate call of the client nor a
\* Dissociate command the server has accepted.
C8_ReassemblyUndissociated ==
    \A i \in 1..Len(sent) :
        (ret.op = "accept" /\ ret.chan \in ChansOf(sent[i]) /\ ~sent[i].dirty
            /\ sent[i].assoc_id \notin dissociated) =>
            AcceptReassembles(sent[i])

\* A packet of two fragments was completed by its first fragment, accepted
\* after the second, while a fragment of another packet was accepted too.
C8_Witness ==
    \E i, j \in 1..Len(sent) :
        /\ i # j /\ sent[j].acc # {} /\ sent[j].from = sent[i].from
        /\ sent[i].total = 2 /\ Len(sent[i].chans) = 2
        /\ ret.op = "accept" /\ ret.chan = sent[i].chans[1]
        /\ ret.res.kind = "Some" /\ ret.res.bytes = sent[i].payload
        /\ Len(sent[i].payload) = MaxPayload
        /\ ~sent[i].dirty /\ sent[i].assoc_id \notin dissociated

\* C9: when the transport reports no maximum datagram size, packet_native
\* returns the datagram-send error Disabled, sends nothing and leaves the
\* model's associations (and so its counters) as they were.
C9_DisabledDatagramsSendNothing ==
    [][(ret'.op = "packet_native" /\ max_datagram_size = NoDatagram) =>
            /\ ret'.res.tag = "err" /\ ret'.res.kind = "SendDatagram"
            /\ ret'.res.name = "Disabled"
            /\ sessions' = sessions
            /\ chans' = chans
            /\ sent' = sent
            /\ tasks' = tasks]_vars

\* packet_native has returned Disabled on a side that had opened an
\* association before.
C9_Witness ==
    /\ ret.op = "packet_native" /\ ret.res.name = "Disabled"
    /\ max_datagram_size = NoDatagram
    /\ \E a \in Assocs : sessions[ret.side][a].open

\* C10: accept() on a Packet whose source is a stream reads exactly the
\* declared number of bytes; when the stream ends before that, it returns an
\* error and no payload, and the model's reassembly state is as before.
C10_StreamAcceptReadsDeclaredSize ==
    [][(ret'.op = "accept" /\ chans[ret'.chan].kind = "uni" /\ chans[ret'.chan].st = "task") =>
            LET ch == chans[ret'.chan]
                size == Unmarshal(ch.data).hdr.size
            IN  IF Len(ch.data) - ch.pos < size
                THEN /\ ret'.res.tag = "err" /\ ret'.res.bytes = <<>>
                     /\ sessions' = sessions
                ELSE /\ chans'[ret'.chan].pos = ch.pos + size
                     /\ ret'.res.kind # "Io"
                     /\ ret'.res.kind = "Some" =>
                            Len(ret'.res.bytes) >= size]_vars

\* accept() has failed on a stream that ended one byte early.
C10_Witness ==
    /\ ret.op = "accept" /\ ret.res.tag = "err" /\ ret.res.kind = "Io"
    /\ RetChan.kind = "uni" /\ RetChan.fin
    /\ Len(RetChan.data) = RetHeader.used + RetHeader.hdr.size - 1

\* C11: the Connect session the client's connect(A) returns reports the
\* address A; the server's accept_bi_stream on the stream of that connect
\* returns Task::Connect with a session that reports A; and every session
\* reports A for as long as it exists, whatever is read from it or written to
\* it and whether or not it has been closed.
C11_ConnectAddress ==
    /\ (ret.op = "connect" /\ ret.res.tag = "ok") =>
            /\ ret.res.kind = "Connect"
            /\ ret.res.addr = RetChan.call.arg
    /\ (ret.op = "accept_bi_stream" /\ ret.side = "server"
            /\ RetChan.call.op = "connect" /\ RetChan.data # <<>>) =>
            /\ ret.res.tag = "ok" /\ ret.res.kind = "Connect"
            /\ ret.res.addr = RetChan.call.arg
    /\ \A c \in connects :
            chans[c.chan].call.op = "connect" => ConnectAddr(c) = chans[c.chan].call.arg

\* Both ends hold a session of a connect to address 2 on which bytes were
\* written and read in both directions and whose server half is closed.
C11_Witness ==
    \E c, d \in connects :
        /\ c.side = "client" /\ d.side = "server" /\ c.chan = d.chan
        /\ chans[c.chan].call.arg = 2 /\ ConnectAddr(d) = 2
        /\ chans[c.chan].pos = Len(chans[c.chan].data)
        /\ chans[c.chan].pos > Len(Marshal(d.model))
        /\ chans[c.chan].back_pos > 0
        /\ chans[c.chan].back_fin

\* The header an authenticate or dissociate call with this argument writes.
CommandHeader(call) ==
    IF call.op = "authenticate" THEN Authenticate(call.arg) ELSE Dissociate(call.arg)

\* C12: authenticate(T) opens a fresh unidirectional stream, writes the
\* authenticate header of T and nothing else, and closes the stream; the
\* server's accept_uni_stream on that stream returns Task::Authenticate(T).
\* dissociate(I) does the same with the dissociate header of I, and the
\* server's accept_uni_stream returns Task::Dissociate(I).  However the calls
\* interleave: each has a stream of its own, opened empty by the call; the
\* stream holds nothing or the header, and is closed only with the header; a
\* call that returns Ok has closed its stream; a call that fails leaves the
\* transport as it is.
C12_AuthenticateDissociate ==
    [][/\ \A j \in jobs :
            (j.op \in {"authenticate", "dissociate"} /\ j.pc = "open" /\ j \notin jobs'
                    /\ ret'.op = "none") =>
                /\ chans' = Append(chans, chans'[Len(chans')])
                /\ chans'[Len(chans')].kind = "uni" /\ chans'[Len(chans')].to = Peer(j.side)
                /\ chans'[Len(chans')].data = <<>> /\ ~chans'[Len(chans')].fin
                /\ CommandHeader(chans'[Len(chans')].call) = j.hdr
                /\ chans'[Len(chans')].call.op = j.op
       /\ \A c \in 1..Len(chans') :
            chans'[c].call.op \in {"authenticate", "dissociate"} =>
                /\ chans'[c].data \in {<<>>, Marshal(CommandHeader(chans'[c].call))}
                /\ chans'[c].fin => chans'[c].data = Marshal(CommandHeader(chans'[c].call))
                /\ Cardinality({j \in jobs' : j.chan = c}) <= 1
       /\ (ret'.op \in {"authenticate", "dissociate"} /\ ret'.res.tag = "ok") =>
            /\ ret'.chan \in 1..Len(chans)
            /\ chans'[ret'.chan].call.op = ret'.op
            /\ chans'[ret'.chan].fin /\ ~chans[ret'.chan].fin
            /\ \E j \in jobs \ jobs' :
                    j.chan = ret'.chan /\ j.hdr = CommandHeader(chans'[ret'.chan].call)
       /\ (ret'.op \in {"authenticate", "dissociate"} /\ ret'.res.tag = "err") =>
            chans' = chans
       /\ (ret'.op = "accept_uni_stream" /\ ret'.side = "server"
                /\ chans[ret'.chan].call.op \in {"authenticate", "dissociate"}
                /\ chans[ret'.chan].data # <<>>) =>
            /\ ret'.res.tag = "ok"
            /\ ret'.res.kind = (IF chans[ret'.chan].call.op = "authenticate"
                                THEN "Authenticate" ELSE "Dissociate")
            /\ ret'.res.a = chans[ret'.chan].call.arg]_vars

\* The server has returned Task::Dissociate(2) for the stream of dissociate(2),
\* after it had classified the stream of authenticate(8); both calls have
\* returned, their streams closed.
C12_Witness ==
    /\ ret.op = "accept_uni_stream" /\ ret.side = "server"
    /\ ret.res.kind = "Dissociate" /\ ret.res.a = 2
    /\ RetChan.call = [op |-> "dissociate", arg |-> 2]
    /\ RetChan.fin
    /\ jobs = {}
    /\ \E c \in 1..Len(chans) :
            /\ chans[c].call = [op |-> "authenticate", arg |-> 8]
            /\ chans[c].st = "dropped" /\ chans[c].fin

\* C13: heartbeat opens no stream; when it returns Ok it has sent one
\* datagram, the heartbeat header and nothing else, and when it returns the
\* error of send_datagram it has sent nothing.  The server's accept_datagram
\* on that datagram returns Task::Heartbeat.
C13_HeartbeatDatagram ==
    [][/\ ret'.op = "heartbeat" =>
            IF ret'.res.tag = "ok"
            THEN /\ chans' = Append(chans, chans'[Len(chans')])
                 /\ ret'.chan = Len(chans')
                 /\ chans'[ret'.chan].kind = "dg"
                 /\ chans'[ret'.chan].call.op = "heartbeat"
                 /\ chans'[ret'.chan].data = Marshal(Heartbeat)
            ELSE /\ chans' = chans
                 /\ ret'.res.kind = "SendDatagram"
       /\ (ret'.op = "accept_datagram" /\ ret'.side = "server"
                /\ chans[ret'.chan].call.op = "heartbeat") =>
            /\ ret'.res.tag = "ok" /\ ret'.res.kind = "Heartbeat"
            /\ sessions' = sessions]_vars

\* The server has returned Task::Heartbeat for the datagram of a heartbeat.
C13_Witness ==
    /\ ret.op = "accept_datagram" /\ ret.side = "server"
    /\ ret.res.tag = "ok" /\ ret.res.kind = "Heartbeat"
    /\ RetChan.call.op = "heartbeat" /\ RetChan.kind = "dg"
    /\ \A c \in 1..Len(chans) : chans[c].kind = "dg"

\* C14: collect_garbage with timeout 0 leaves no reassembly buffer on its
\* side; a fragment of a multi-fragment packet accepted on an empty reassembly
\* state returns None; and once such a sweep has run on an incomplete packet
\* (of an association no dissociate has named), every later accept() of one
\* of its fragments returns None: what was buffered before the sweep is in no
\* payload returned after it.
C14_SweepWithTimeoutZero ==
    [][/\ (ret'.op = "collect_garbage" /\ ret'.res.a = 0) =>
            \A a \in Assocs : sessions'[ret'.side][a].pkt_buf = {}
       /\ (ret'.op = "accept" /\ ret'.res.tag = "ok") =>
            LET h == Unmarshal(chans[ret'.chan].data).hdr
            IN  /\ (h.frag_total > 1 /\ sessions[ret'.side][h.assoc_id].pkt_buf = {}) =>
                        ret'.res.kind = "None"
                /\ \A i \in 1..Len(sent) :
                        (ret'.chan \in ChansOf(sent[i]) /\ sent[i].swept
                            /\ sent[i].assoc_id \notin dissociated) =>
                            ret'.res.kind = "None"]_vars

\* The last fragment of a two-fragment packet was accepted after a sweep with
\* timeout 0 had discarded the first: accept() has returned None, with every
\* fragment of the packet accepted.
C14_Witness ==
    \E i \in 1..Len(sent) :
        /\ sent[i].swept /\ sent[i].total = 2 /\ sent[i].acc = ChansOf(sent[i])
        /\ Len(sent[i].chans) = 2
        /\ ret.op = "accept" /\ ret.chan \in ChansOf(sent[i])
        /\ ret.res.tag = "ok" /\ ret.res.kind = "None"
        /\ sent[i].assoc_id \notin dissociated

\* C17: a sweep discards only what has reached the age of its timeout.  A
\* packet none of whose sweeps found its buffer that old (and whose
\* association no dissociate has named) is delivered wherever the sweeps fall
\* among its accepts: every accept() returns None but the one that supplies
\* the last missing fragment, which returns Some with the packet as sent.
C17_SweepSparesTheYoung ==
    [][/\ ret'.op = "collect_garbage" =>
            \A a \in Assocs : \A b \in sessions[ret'.side][a].pkt_buf :
                b.age < ret'.res.a => b \in sessions'[ret'.side][a].pkt_buf
       /\ (\A i \in 1..Len(sent) :
            (ret.op = "accept" /\ ret.chan \in ChansOf(sent[i]) /\ ~sent[i].expired
                /\ sent[i].assoc_id \notin dissociated) =>
                AcceptReassembles(sent[i]))']_vars

\* A two-fragment packet was delivered although its receiver collected
\* garbage between the accepts of its fragments.
C17_Witness ==
    \E i \in 1..Len(sent) :
        /\ sent[i].dirty /\ ~sent[i].expired /\ sent[i].total = 2
        /\ ret.op = "accept" /\ ret.chan \in ChansOf(sent[i])
        /\ ret.res.kind = "Some" /\ ret.res.bytes = sent[i].payload
        /\ Len(sent[i].payload) = MaxPayload

\* The fragments packet_quic makes of sent packet p, and the bytes its k-th
\* stream carries once written: the fragment's header, then the fragment.
QuicFragments(p) == Fragments(p.assoc_id, p.pkt_id, p.addr, QuicMaxPktSize, p.payload)
QuicStreamBytes(p, k) == Marshal(QuicFragments(p)[k].header) \o QuicFragments(p)[k].frag

\* C15: however concurrent packet_quic calls interleave, each of their
\* unidirectional streams belongs to one fragment of one call; it carries
\* nothing, or that fragment's header, or the header followed by exactly the
\* fragment's bytes, and is closed only with the last of these; and a call
\* has a stream for fragment k+1 only when its stream for fragment k is closed.
C15_OneFragmentPerStream ==
    /\ \A c \in 1..Len(chans) :
            chans[c].call.op = "packet_quic" =>
                \E i \in 1..Len(sent) : sent[i].via = "quic" /\ c \in ChansOf(sent[i])
    /\ \A i \in 1..Len(sent) :
            sent[i].via = "quic" =>
                /\ Len(sent[i].chans) <= Len(QuicFragments(sent[i]))
                /\ \A k \in 1..Len(sent[i].chans) :
                        LET ch == chans[sent[i].chans[k]]
                        IN  /\ ch.kind = "uni" /\ ch.to = Peer(sent[i].from)
                            /\ ch.data \in {<<>>, Marshal(QuicFragments(sent[i])[k].header),
                                            QuicStreamBytes(sent[i], k)}
                            /\ ch.fin => ch.data = QuicStreamBytes(sent[i], k)
                            /\ k < Len(sent[i].chans) => ch.fin
                /\ \A k, l \in 1..Len(sent[i].chans) :
                        k # l => sent[i].chans[k] # sent[i].chans[l]
                /\ \A j \in 1..Len(sent) :
                        j # i => ChansOf(sent[i]) \cap ChansOf(sent[j]) = {}

\* Two calls of two fragments each have run interleaved to their end: the
\* first stream of the second call was opened between the two streams of the
\* first, and all four streams are written and closed.
C15_Witness ==
    \E i, j \in 1..Len(sent) :
        /\ i # j /\ sent[i].via = "quic" /\ sent[j].via = "quic"
        /\ sent[i].from = sent[j].from
        /\ sent[i].done /\ sent[j].done /\ ~sent[i].err /\ ~sent[j].err
        /\ Len(sent[i].chans) = 2 /\ Len(sent[j].chans) = 2
        /\ sent[i].chans[1] < sent[j].chans[1] /\ sent[j].chans[1] < sent[i].chans[2]
        /\ \A c \in ChansOf(sent[i]) \cup ChansOf(sent[j]) : chans[c].fin

\* C16: a send call that fails at fragment k returns the error of the failed
\* step.  The failing step writes nothing and takes nothing back; the
\* fragments before k are on the transport, whole (packet_quic: their streams
\* closed); the call has reached no fragment after k and is over; and what a
\* finished call has sent is never changed afterwards.
C16_FailedSendKeepsEarlierFragments ==
    [][/\ \A j \in jobs :
            (j.op = "packet_quic" /\ ret'.op = "packet_quic" /\ ret'.res.tag = "err"
                    /\ j \notin jobs') =>
                /\ chans' = chans
                /\ ret'.res.kind = (IF j.pc = "open" THEN "Connection" ELSE "Io")
                /\ sent'[j.pkt].err /\ sent'[j.pkt].done
                /\ sent'[j.pkt].chans = sent[j.pkt].chans
                /\ Len(sent[j.pkt].chans) = (IF j.pc = "open" THEN j.k - 1 ELSE j.k)
                /\ \A k \in 1..(j.k - 1) :
                        /\ chans[sent[j.pkt].chans[k]].fin
                        /\ chans[sent[j.pkt].chans[k]].data = QuicStreamBytes(sent[j.pkt], k)
                /\ \A l \in jobs' : l.pkt # j.pkt
       /\ (ret'.op = "packet_native" /\ ret'.res.tag = "err" /\ Len(sent') > Len(sent)) =>
                LET p == sent'[Len(sent')]
                    frags == Fragments(p.assoc_id, p.pkt_id, p.addr, max_datagram_size,
                                       p.payload)
                IN  /\ ret'.res.kind = "SendDatagram"
                    /\ p.err /\ p.done /\ Len(p.chans) < Len(frags)
                    /\ Len(chans') = Len(chans) + Len(p.chans)
                    /\ \A c \in 1..Len(chans) : chans'[c] = chans[c]
                    /\ \A k \in 1..Len(p.chans) :
                            /\ p.chans[k] = Len(chans) + k
                            /\ chans'[p.chans[k]].data = NativeDatagram(frags[k])
       /\ \A i \in 1..Len(sent) :
            sent[i].done =>
                /\ sent'[i].chans = sent[i].chans /\ sent'[i].done
                /\ sent'[i].err = sent[i].err
                /\ \A c \in ChansOf(sent[i]) :
                        /\ chans'[c].data = chans[c].data
                        /\ chans'[c].fin = chans[c].fin]_vars

\* A packet_quic call of two fragments has failed at the second: the first
\* fragment's stream is whole and closed, the second has the header only and
\* stays open, and the call has returned the write's error.
C16_Witness ==
    \E i \in 1..Len(sent) :
        /\ sent[i].via = "quic" /\ sent[i].err /\ sent[i].done /\ sent[i].total = 2
        /\ Len(sent[i].chans) = 2
        /\ chans[sent[i].chans[1]].fin
        /\ chans[sent[i].chans[1]].data = QuicStreamBytes(sent[i], 1)
        /\ chans[sent[i].chans[2]].data = Marshal(QuicFragments(sent[i])[2].header)
        /\ ~chans[sent[i].chans[2]].fin
        /\ ret.op = "packet_quic" /\ ret.res.tag = "err" /\ ret.res.kind = "Io"
        /\ ret.chan = sent[i].chans[2]

\* What C18 says of the last call, an accept_uni_stream or accept_datagram on
\* a channel that starts with a Packet header: the server never returns
\* InvalidUdpSession and returns Task::Packet when the packet is well-formed;
\* the client returns Task::Packet only for an association whose history is
\* in `live`, and for any other returns InvalidUdpSession with the
\* association id, and no Task.
AssociationByRole(live) ==
    (ret.op \in {"accept_uni_stream", "accept_datagram"}
            /\ RetHeader.st = "ok" /\ RetHeader.hdr.cmd = "packet") =>
        IF ret.side = "server"
        THEN /\ ~(ret.res.tag = "err" /\ ret.res.kind = "InvalidUdpSession")
             /\ RetChan.data \in AssocPackets =>
                    /\ ret.res = TaskPacket(ret.chan)
                    /\ \E t \in tasks : t.chan = ret.chan /\ t.side = "server"
        ELSE /\ ret.res = TaskPacket(ret.chan) => assoc_use[RetHeader.hdr.assoc_id] \in live
             /\ assoc_use[RetHeader.hdr.assoc_id] \notin live =>
                    /\ ret.res = [Err("InvalidUdpSession") EXCEPT
                                        !.a = RetHeader.hdr.assoc_id]
                    /\ \A t \in tasks : t.chan # ret.chan

C19_FailedClassificationFrame ==
    [][(/\ ret'.op \in AcceptOps
        /\ ret'.res.tag = "err"
        /\ ret'.res.kind \in {UnmarshalError(k) : k \in {"uni", "bi", "dg"}}
                             \cup {BadCommandError(k) : k \in {"uni", "bi", "dg"}}) =>
            /\ sessions' = sessions
            /\ \A s \in Sides :
                    TaskAssociateCount(sessions'[s]) = TaskAssociateCount(sessions[s])
            /\ connect_count' = connect_count
            /\ connects' = connects
            /\ tasks' = tasks
            /\ chans'[ret'.chan].data = chans[ret'.chan].data
            /\ IF chans[ret'.chan].kind = "dg"
               THEN ret'.res.bytes = chans[ret'.chan].data
               ELSE /\ ret'.res.chan = ret'.chan
                    /\ chans'[ret'.chan].st = "caller"
                    /\ chans'[ret'.chan].pos = Unmarshal(chans[ret'.chan].data).used]_vars

\* The server, holding one association with a packet half reassembled, has
\* returned the decode error of a datagram of several bytes, the whole
\* datagram in it.
C19_Witness ==
    /\ ret.op = "accept_datagram" /\ ret.side = "server"
    /\ ret.res.tag = "err" /\ ret.res.kind = "UnmarshalDatagram"
    /\ ret.res.bytes = RetChan.data /\ Len(ret.res.bytes) > 1
    /\ TaskAssociateCount(sessions["server"]) = 1
    /\ \E a \in Assocs : sessions["server"][a].pkt_buf # {}

\* The Connect sessions side s holds, and its connect calls in flight.
LiveConnects(s) == {c \in connects : c.side = s}
ConnectsInFlight(s) == {j \in jobs : j.op = "connect" /\ j.side = s}

\* C20: on each side task_connect_count is the number of Connect sessions
\* that exist (returned by connect or by accept_bi_stream, and not dropped)
\* plus the number of connect calls in flight.  A connect call that fails, at
\* open_bi or at the header write, takes back the one it had added and makes
\* no session; dropping a session lowers the count of its side by one.
C20_ConnectCount ==
    /\ \A s \in Sides :
            connect_count[s] = Cardinality(LiveConnects(s)) + Cardinality(ConnectsInFlight(s))
    /\ [][/\ \A s \in Sides :
                connect_count'[s] = Cardinality(LiveConnects(s)') + Cardinality(ConnectsInFlight(s)')
          /\ (ret'.op = "connect" /\ ret'.res.tag = "err") =>
                \E j \in jobs :
                    /\ j.op = "connect" /\ jobs' = jobs \ {j}
                    /\ connect_count' = Released(connect_count, j.side)
                    /\ connects' = connects
          /\ \A c \in connects :
                c \notin connects' =>
                    /\ connects' = connects \ {c}
                    /\ connect_count' = Released(connect_count, c.side)]_vars

\* A second connect call has failed on the lost connection and left the
\* client's count at 1, the session of the first; the server, which had
\* accepted that one's stream as Task::Connect and dropped the session, is
\* back at 0.
C20_Witness ==
    /\ ret.op = "connect" /\ ret.res.tag = "err"
    /\ connect_count["client"] = 1 /\ Cardinality(LiveConnects("client")) = 1
    /\ connect_count["server"] = 0
    /\ \E c \in 1..Len(chans) :
            /\ chans[c].kind = "bi" /\ chans[c].to = "server" /\ chans[c].st = "dropped"
            /\ chans[c].call.op = "connect"

=============================================================================
